---- MODULE Spec2Model ----
(***************************************************************************)
(* A model of the decision logic of the grocery-demand backend:            *)
(*   - InventoryAwarePredictor (backend/src/inventory_aware_predictor.py)  *)
(*   - PricingAgent, "Policy A"  (backend/agents/pricing_agent.py)         *)
(*   - Database.get_discount_recommendation, "Policy B" (backend/database.py)*)
(*   - PricingInventoryAgent     (backend/agents/pricing_inventory_agent.py)*)
(*   - SupplierForecastAgent     (backend/agents/supplier_forecast_agent.py)*)
(*   - Database.get_prophet_prediction, get_sales_trend, get_current_status *)
(*     (backend/database.py), WeatherService (backend/weather_service.py),  *)
(*     GeminiClient.generate (backend/gemini_client.py)                     *)
(*   - the HTTP entry points generate_forecast and chat (backend/main.py), *)
(*     generate_enhanced_forecast and get_analytics_insights                 *)
(*     (backend/enhanced_api.py)                                             *)
(*                                                                         *)
(* Python floats are modelled by exact rationals <<numerator, denominator>>*)
(* with a positive denominator; round() is Python's round-half-to-even.    *)
(* Demand values are carried in tenths of a unit (the forecasters round to *)
(* one decimal), quantities in whole units, dates as day numbers.          *)
(***************************************************************************)
EXTENDS Integers, Sequences, FiniteSets, TLC

\* ------------------------------------------------------------------------
\* Bounds of the model
\* ------------------------------------------------------------------------

\* Largest number of batches in an inventory snapshot.
MaxBatches == 2

\* Largest length of a predicted-demand sequence.
MaxLen == 2

\* Largest number of rows in the sales dataset.
MaxRows == 2

\* Number of POST /api/chat requests.
MaxRequests == 2

\* ------------------------------------------------------------------------
\* Exact rational arithmetic standing for Python float arithmetic
\* ------------------------------------------------------------------------

Rat(n, d) == IF d < 0 THEN <<-n, -d>> ELSE <<n, d>>

RInt(n) == <<n, 1>>

RAdd(a, b) == <<a[1] * b[2] + b[1] * a[2], a[2] * b[2]>>

RSub(a, b) == <<a[1] * b[2] - b[1] * a[2], a[2] * b[2]>>

RMul(a, b) == <<a[1] * b[1], a[2] * b[2]>>

\* a / b for b # 0
RDiv(a, b) == Rat(a[1] * b[2], a[2] * b[1])

RLt(a, b) == a[1] * b[2] < b[1] * a[2]

RGt(a, b) == RLt(b, a)

\* Python max(a, b): returns b only when b > a
RMax(a, b) == IF RGt(b, a) THEN b ELSE a

\* Python round(x): nearest integer, ties to the even one.
PyRound(r) ==
    LET q == r[1] \div r[2]
        m == r[1] % r[2]
    IN  IF 2 * m < r[2] THEN q
        ELSE IF 2 * m > r[2] THEN q + 1
        ELSE IF q % 2 = 0 THEN q ELSE q + 1

\* Python round(x, 1), as a number of tenths.
PyRound1(r) == PyRound(RMul(r, RInt(10)))

\* ------------------------------------------------------------------------
\* Inputs of the inventory-aware predictor
\* ------------------------------------------------------------------------

Products == {"Milk", "Eggs"}

\* The product a recommendation is asked for.
RequestedProducts == {"Milk"}

\* Batch quantities (units).
QtyVals == {0, 10, 40}

\* Expiration dates (day numbers; the predictor is created on day 0).
ExpDays == {0, 6, 16}

\* The instants at which the predictor is created (datetime.now()):
\* midnight and noon of day 0.
Nows == [day : {0}, hour : {0, 12}]

Batch(p, e, q) == [product |-> p, expiration_date |-> e, quantity |-> q]

\* The batches a snapshot may hold: every date and positive quantity for
\* Milk, one empty batch of Milk, one batch of Eggs.
Batches ==
    {Batch("Milk", e, q) : e \in ExpDays, q \in QtyVals \ {0}}
        \cup {Batch("Milk", 0, 0), Batch("Eggs", 16, 10)}

SeqsUpTo(S, n) == UNION {[1..k -> S] : k \in 0..n}

\* A well-stocked shelf: 80 units expiring on day 0 and 200 units expiring on
\* day 16.
LargeStock == <<Batch("Milk", 0, 80), Batch("Milk", 16, 200)>>

Snapshots == SeqsUpTo(Batches, MaxBatches) \cup {LargeStock}

\* Predicted daily demand, in tenths of a unit (-10 is -1.0 unit).
DemandVals == {-10, 0, 1, 10, 100}

\* A one-entry forecast of 95.0 units.
LargeDemand == <<950>>

DemandSeqs == SeqsUpTo(DemandVals, MaxLen) \cup {LargeDemand}

DaysAheadVals == {-1, 0, 1, 2, 7, 8}

\* ------------------------------------------------------------------------
\* State
\* ------------------------------------------------------------------------

VARIABLES
    phase,           \* position of the order-recommendation handler
    inventory_data,  \* InventoryAwarePredictor.inventory_data
    current_date,    \* InventoryAwarePredictor.current_date
    order_call,      \* arguments of the running calculate_optimal_order_quantity
    order_rec,       \* what calculate_optimal_order_quantity returned
    pa_call,         \* what PricingAgent.analyze read from the database
    pa_result,       \* what PricingAgent.analyze returned
    sales_df,        \* Database.sales_df, the rows of the sales dataset
    pb_call,         \* arguments and environment of get_discount_recommendation
    pb_result,       \* what Database.get_discount_recommendation returned
    pi_call,         \* arguments and environment of PricingInventoryAgent.analyze
    pi_result,       \* what PricingInventoryAgent.analyze returned
    inventory_summary, \* what get_inventory_summary returned
    db_call,         \* a call of get_prophet_prediction, get_sales_trend or
                     \* get_current_status: the method, its arguments, its environment
    db_result,       \* what that call returned
    sf_call,         \* arguments and environment of SupplierForecastAgent.forecast_and_order
    sf_result,       \* what SupplierForecastAgent.forecast_and_order returned
    api_call,        \* an HTTP request to a forecast or analytics entry point
    api_result,      \* the response to that request
    sessions,        \* main.sessions: session_id -> the session dictionary stored for it
    session_dicts,   \* the "history" list of each session dictionary
    chat_req         \* the POST /api/chat requests: position, body, locals, status

vars == <<phase, inventory_data, current_date, order_call, order_rec,
          pa_call, pa_result, sales_df, pb_call, pb_result, pi_call, pi_result,
          inventory_summary, db_call, db_result, sf_call, sf_result,
          api_call, api_result, sessions, session_dicts, chat_req>>

None == [none |-> TRUE]

\* ------------------------------------------------------------------------
\* InventoryAwarePredictor
\* ------------------------------------------------------------------------

\* datetime.strptime(s, '%Y-%m-%d'): midnight of that day, in hours.
strptime(day) == day * 24

\* (exp_date - self.current_date).days: timedelta.days is the floor.
days_to_exp(item, now) ==
    (strptime(item.expiration_date) - (now.day * 24 + now.hour)) \div 24

EmptySummary ==
    [total_quantity |-> 0, expiring_soon |-> 0, expiring_warning |-> 0,
     expiring_good |-> 0, expired |-> 0]

AddToSummary(s, item, now) ==
    LET d == days_to_exp(item, now)
        q == item.quantity
        t == [s EXCEPT !.total_quantity = @ + q]
    IN  IF d < 0 THEN [t EXCEPT !.expired = @ + q]
        ELSE IF d <= 5 THEN [t EXCEPT !.expiring_soon = @ + q]
        ELSE IF d <= 14 THEN [t EXCEPT !.expiring_warning = @ + q]
        ELSE [t EXCEPT !.expiring_good = @ + q]

RECURSIVE SummaryOf(_, _, _)
\* The summary entry of product p after the loop over the first n items.
SummaryOf(inv, now, p) ==
    IF inv = <<>> THEN EmptySummary
    ELSE LET n == Len(inv)
             rest == SummaryOf(SubSeq(inv, 1, n - 1), now, p)
         IN  IF inv[n].product = p THEN AddToSummary(rest, inv[n], now) ELSE rest

InSummary(inv, p) == \E i \in 1..Len(inv) : inv[i].product = p

\* get_inventory_summary: a function on the products that have a batch.
get_inventory_summary(inv, now) ==
    [p \in {inv[i].product : i \in 1..Len(inv)} |-> SummaryOf(inv, now, p)]

\* sum(predicted_demand[:days_ahead]); a negative days_ahead drops that many
\* elements from the end, as Python slicing does.
Slice(seq, k) ==
    IF k >= 0
    THEN SubSeq(seq, 1, IF k < Len(seq) THEN k ELSE Len(seq))
    ELSE SubSeq(seq, 1, IF Len(seq) + k > 0 THEN Len(seq) + k ELSE 0)

RECURSIVE SumSeq(_)
SumSeq(seq) == IF seq = <<>> THEN 0 ELSE seq[1] + SumSeq(Tail(seq))

TotalDemandFirstOnly(predicted_demand, days_ahead) ==
    SumSeq(Slice(predicted_demand, IF days_ahead > 1 THEN 1 ELSE days_ahead))

\* total_demand, in tenths of a unit.
total_demand(predicted_demand, days_ahead) == SumSeq(Slice(predicted_demand, days_ahead))

\* avg_daily_demand = total_demand / days_ahead (units), days_ahead # 0.
avg_daily_demand(predicted_demand, days_ahead) ==
    Rat(total_demand(predicted_demand, days_ahead), 10 * days_ahead)

\* days_of_inventory = total_current / avg if avg > 0 else 999
days_of_inventory(total_current, avg) ==
    IF RGt(avg, RInt(0)) THEN RDiv(RInt(total_current), avg) ELSE RInt(999)

\* waste_risk = max(0, expiring_soon - avg * 5)
waste_risk(expiring_soon, avg) ==
    RMax(RInt(0), RSub(RInt(expiring_soon), RMul(avg, RInt(5))))

PriorityWithoutWasteRisk(doi, wr) ==
    IF RLt(doi, RInt(3)) THEN "URGENT"
    ELSE IF RLt(doi, RInt(7)) THEN "HIGH"
    ELSE IF RLt(doi, RInt(14)) THEN "MEDIUM"
    ELSE "LOW"

\* _get_order_priority
get_order_priority(doi, wr) ==
    IF RLt(doi, RInt(3)) THEN "URGENT"
    ELSE IF RLt(doi, RInt(7)) \/ RGt(wr, RInt(10)) THEN "HIGH"
    ELSE IF RLt(doi, RInt(14)) THEN "MEDIUM"
    ELSE "LOW"

TierUnclamped(td, tc, avg, doi, wr) ==
    IF RLt(doi, RInt(3))
    THEN [order |-> RAdd(RSub(td, RInt(tc)), RMul(avg, RInt(2))),
          confidence |-> "high",
          reason |-> "Critical stock level - immediate order needed"]
    ELSE IF RLt(doi, RInt(7))
    THEN [order |-> RAdd(RSub(td, RInt(tc)), RMul(avg, RInt(3))),
          confidence |-> "high",
          reason |-> "Low stock level - order recommended"]
    ELSE IF RGt(wr, avg)
    THEN [order |-> RSub(td, RInt(tc)),
          confidence |-> "medium",
          reason |-> "High waste risk - order only if needed"]
    ELSE IF RGt(doi, RInt(14))
    THEN [order |-> RInt(0),
          confidence |-> "high",
          reason |-> "Overstocked - no order needed"]
    ELSE [order |-> RAdd(RSub(td, RInt(tc)), RMul(avg, RInt(2))),
          confidence |-> "medium",
          reason |-> "Normal stock level - standard order"]

TierOverstockedFirst(td, tc, avg, doi, wr) ==
    IF RLt(doi, RInt(3))
    THEN [order |-> RMax(RInt(0), RAdd(RSub(td, RInt(tc)), RMul(avg, RInt(2)))),
          confidence |-> "high",
          reason |-> "Critical stock level - immediate order needed"]
    ELSE IF RLt(doi, RInt(7))
    THEN [order |-> RMax(RInt(0), RAdd(RSub(td, RInt(tc)), RMul(avg, RInt(3)))),
          confidence |-> "high",
          reason |-> "Low stock level - order recommended"]
    ELSE IF RGt(doi, RInt(14))
    THEN [order |-> RInt(0),
          confidence |-> "high",
          reason |-> "Overstocked - no order needed"]
    ELSE IF RGt(wr, avg)
    THEN [order |-> RMax(RInt(0), RSub(td, RInt(tc))),
          confidence |-> "medium",
          reason |-> "High waste risk - order only if needed"]
    ELSE [order |-> RMax(RInt(0), RAdd(RSub(td, RInt(tc)), RMul(avg, RInt(2)))),
          confidence |-> "medium",
          reason |-> "Normal stock level - standard order"]

\* The if/elif chain that picks recommended_order, confidence and reason.
\* td is total_demand as a rational number of units.
Tier(td, tc, avg, doi, wr) ==
    IF RLt(doi, RInt(3))
    THEN [order |-> RMax(RInt(0), RAdd(RSub(td, RInt(tc)), RMul(avg, RInt(2)))),
          confidence |-> "high",
          reason |-> "Critical stock level - immediate order needed"]
    ELSE IF RLt(doi, RInt(7))
    THEN [order |-> RMax(RInt(0), RAdd(RSub(td, RInt(tc)), RMul(avg, RInt(3)))),
          confidence |-> "high",
          reason |-> "Low stock level - order recommended"]
    ELSE IF RGt(wr, avg)
    THEN [order |-> RMax(RInt(0), RSub(td, RInt(tc))),
          confidence |-> "medium",
          reason |-> "High waste risk - order only if needed"]
    ELSE IF RGt(doi, RInt(14))
    THEN [order |-> RInt(0),
          confidence |-> "high",
          reason |-> "Overstocked - no order needed"]
    ELSE [order |-> RMax(RInt(0), RAdd(RSub(td, RInt(tc)), RMul(avg, RInt(2)))),
          confidence |-> "medium",
          reason |-> "Normal stock level - standard order"]

\* "Apply waste reduction factor": order * 0.7 and a note appended to reason.
Reduce(t, wr, avg) ==
    IF RGt(wr, RMul(avg, RInt(2)))
    THEN [t EXCEPT !.order = RMul(@, <<7, 10>>),
                   !.reason = @ \o " (reduced due to waste risk)"]
    ELSE t

NoInventoryDataRaises(product) == [raised |-> "KeyError"]

\* The product is absent from the snapshot: the early return.
NoInventoryData(product) ==
    [product |-> product, recommended_order |-> 0,
     reason |-> "No current inventory data", confidence |-> "low"]

\* calculate_optimal_order_quantity.  A raised exception is the record
\* [raised |-> <exception>].
calculate_optimal_order_quantity(inv, now, product, predicted_demand, days_ahead) ==
    IF ~InSummary(inv, product) THEN NoInventoryData(product)
    ELSE IF days_ahead = 0 THEN [raised |-> "ZeroDivisionError"]
    ELSE
    LET current_inventory == get_inventory_summary(inv, now)[product]
        total_current == current_inventory.total_quantity
        expiring_soon == current_inventory.expiring_soon
        td10 == total_demand(predicted_demand, days_ahead)
        avg == avg_daily_demand(predicted_demand, days_ahead)
        doi == days_of_inventory(total_current, avg)
        wr == waste_risk(expiring_soon, avg)
        t == Reduce(Tier(<<td10, 10>>, total_current, avg, doi, wr), wr, avg)
    IN  [product |-> product,
         current_inventory |-> total_current,
         expiring_soon |-> expiring_soon,
         predicted_demand |-> td10,
         days_of_inventory |-> PyRound1(doi),
         waste_risk |-> PyRound1(wr),
         recommended_order |-> PyRound(t.order),
         confidence |-> t.confidence,
         reason |-> t.reason,
         order_priority |-> get_order_priority(doi, wr)]

\* ------------------------------------------------------------------------
\* The order-recommendation flow: a predictor is built from a snapshot
\* (as get_analytics_insights and integrate_with_predictions do), one
\* recommendation is computed and returned.
\* ------------------------------------------------------------------------

\* No predictor exists.
NoPredictor ==
    /\ phase = "idle"
    /\ inventory_data = <<>>
    /\ current_date = [day |-> 0, hour |-> 0]
    /\ order_call = None
    /\ order_rec = None
    /\ inventory_summary = None

\* PricingAgent.analyze has not run.
NoPolicyA == pa_call = None /\ pa_result = None

\* No Database object: no dataset, nothing returned.
NoPolicyB == pb_call = None /\ pb_result = None

NoPricingInventory == pi_call = None /\ pi_result = None

\* No Database method was called directly.
NoDirectCall == db_call = None /\ db_result = None

NoSupplier == sf_call = None /\ sf_result = None

NoDatabase ==
    sales_df = <<>> /\ NoPolicyB /\ NoPricingInventory /\ NoDirectCall /\ NoSupplier

predictorVars ==
    <<phase, inventory_data, current_date, order_call, order_rec, inventory_summary>>

policyAVars == <<pa_call, pa_result>>

databaseVars ==
    <<sales_df, pb_call, pb_result, pi_call, pi_result,
      db_call, db_result, sf_call, sf_result>>

apiVars == <<api_call, api_result, sessions, session_dicts, chat_req>>

\* The POST /api/chat requests the server receives, by order of creation.
ChatRequests == 1..MaxRequests

\* Session ids: the ones clients send, and str(uuid.uuid4()) of request r
\* (a fresh id for every request that sends none).
ClientSessionIds == {<<"client", 1>>, <<"client", 2>>}

uuid4(r) == <<"uuid", r>>

\* data.get('session_id') of a body without that key
NoSessionId == <<"none", 0>>

SessionKeys == ClientSessionIds \cup {uuid4(r) : r \in ChatRequests}

\* A request that has not arrived.
NoRequest ==
    [pc |-> "idle", body |-> None, session_id |-> NoSessionId,
     session_data |-> 0, status |-> 0]

\* main.py as loaded: sessions = {}, no request in flight; no request to
\* the forecast entry points.  sessions[s] = 0: s is not a key of sessions;
\* otherwise the dictionary stored for s, named by the request that made it.
NoApi ==
    /\ api_call = None /\ api_result = None
    /\ sessions = [s \in SessionKeys |-> 0]
    /\ session_dicts = [r \in ChatRequests |-> <<>>]
    /\ chat_req = [r \in ChatRequests |-> NoRequest]

InitOrder == NoPredictor /\ NoPolicyA /\ NoDatabase /\ NoApi

\* InventoryAwarePredictor.__init__
NewPredictor ==
    /\ phase = "idle"
    /\ \E inv \in Snapshots, now \in Nows :
         /\ inventory_data' = inv
         /\ current_date' = now
    /\ phase' = "constructed"
    /\ UNCHANGED <<order_call, order_rec, inventory_summary, policyAVars, databaseVars, apiVars>>

CalculateOrder ==
    /\ phase = "constructed"
    /\ \E p \in RequestedProducts, pd \in DemandSeqs, d \in DaysAheadVals :
         /\ order_call' = [product |-> p, predicted_demand |-> pd, days_ahead |-> d]
         /\ order_rec' = calculate_optimal_order_quantity(inventory_data, current_date, p, pd, d)
    /\ phase' = "returned"
    /\ UNCHANGED <<inventory_data, current_date, inventory_summary,
                   policyAVars, databaseVars, apiVars>>

\* get_inventory_summary called on the predictor (as generate_inventory_report
\* and get_waste_reduction_recommendations do).
GetInventorySummary ==
    /\ phase = "constructed"
    /\ inventory_summary' = get_inventory_summary(inventory_data, current_date)
    /\ phase' = "summarised"
    /\ UNCHANGED <<inventory_data, current_date, order_call, order_rec,
                   policyAVars, databaseVars, apiVars>>

NextOrder == NewPredictor \/ CalculateOrder \/ GetInventorySummary

SpecOrder == InitOrder /\ [][NextOrder]_vars

\* ------------------------------------------------------------------------
\* Policy A: PricingAgent (performance / expiry rule)
\* ------------------------------------------------------------------------

\* What the database reports to PricingAgent.analyze: today's sales, the
\* historical average used as prediction, the hours to expiry (negative:
\* already expired).
ActualSalesVals == {0, 3, 5, 6, 9, 10, 12}

PredictedSalesVals == {-5, 0, 10}

HoursVals == {-48, 0, 24, 47, 48, 72}

PerformanceDefaultZero(actual_sales, predicted_sales) ==
    IF predicted_sales > 0 THEN Rat(actual_sales, predicted_sales) ELSE RInt(0)

\* performance = actual_sales / predicted_sales if predicted_sales > 0 else 1.0
performance(actual_sales, predicted_sales) ==
    IF predicted_sales > 0 THEN Rat(actual_sales, predicted_sales) ELSE RInt(1)

DiscountUncapped(perf, hours_to_expiry) ==
    LET base_discount == RMul(RSub(RInt(1), perf), RInt(50))
        urgency_factor == RMul(RMax(RInt(0), Rat(48 - hours_to_expiry, 48)), RInt(20))
    IN  PyRound(RAdd(base_discount, urgency_factor))

\* _calculate_optimal_discount
calculate_optimal_discount(perf, hours_to_expiry) ==
    LET base_discount == RMul(RSub(RInt(1), perf), RInt(50))
        urgency_factor == RMul(RMax(RInt(0), Rat(48 - hours_to_expiry, 48)), RInt(20))
        rounded == PyRound(RAdd(base_discount, urgency_factor))
    IN  IF 50 < rounded THEN 50 ELSE rounded

\* PricingAgent.analyze, given what the database returned.  The
\* human-readable reasoning text is not modelled.
PricingAgent_analyze(product, actual_sales, predicted_sales, hours_to_expiry) ==
    LET perf == performance(actual_sales, predicted_sales)
        decision ==
            IF RLt(perf, <<6, 10>>) /\ hours_to_expiry < 48
            THEN <<"discount", calculate_optimal_discount(perf, hours_to_expiry)>>
            ELSE IF RGt(perf, <<9, 10>>) THEN <<"no_action", 0>>
            ELSE <<"monitor", 0>>
    IN  [product |-> product,
         actual_sales |-> actual_sales,
         predicted_sales |-> predicted_sales,
         performance_ratio |-> PyRound(RMul(perf, RInt(100))),
         hours_to_expiry |-> hours_to_expiry,
         recommendation |-> decision[1],
         recommended_discount |-> decision[2]]

InitPolicyA == NoPredictor /\ NoPolicyA /\ NoDatabase /\ NoApi

AnalyzeA ==
    /\ \E p \in RequestedProducts, a \in ActualSalesVals,
          b \in PredictedSalesVals, h \in HoursVals :
         /\ pa_call' = [product |-> p, actual_sales |-> a,
                        predicted_sales |-> b, hours_to_expiry |-> h]
         /\ pa_result' = PricingAgent_analyze(p, a, b, h)
    /\ UNCHANGED <<predictorVars, databaseVars, apiVars>>

NextPolicyA == AnalyzeA

SpecPolicyA == InitPolicyA /\ [][NextPolicyA]_vars

\* ------------------------------------------------------------------------
\* Database: the sales dataset and the Prophet forecast
\* ------------------------------------------------------------------------

\* <<items_sold, items_wasted>> of a day.
SoldWasted == {<<0, 0>>, <<72, 28>>, <<75, 25>>, <<85, 15>>, <<90, 0>>}

Row(p, d, sw) == [product |-> p, date |-> d, items_sold |-> sw[1], items_wasted |-> sw[2]]

SalesRows ==
    {Row("Milk", d, sw) : d \in {1, 2}, sw \in SoldWasted} \cup {Row("Eggs", 1, <<90, 0>>)}

\* The datasets Database.__init__ may load (rows in file order).
SalesFrames == SeqsUpTo(SalesRows, MaxRows)

\* sales_df[sales_df['product'] == product], in row order
ProductRows(df, product) == SelectSeq(df, LAMBDA r : r.product = product)

\* .tail(n)
TailRows(rows, n) ==
    IF Len(rows) <= n THEN rows ELSE SubSeq(rows, Len(rows) - n + 1, Len(rows))

RECURSIVE SumField(_, _)
\* rows[field].sum()
SumField(rows, field) ==
    IF rows = <<>> THEN 0 ELSE rows[1][field] + SumField(Tail(rows), field)

\* What model.predict makes of the future frame: it raises, or gives one
\* yhat (in hundredths of a unit) per day.  Prophet refuses a frame without
\* rows ("Dataframe has no rows."), so with days < 1 it can only raise.
YhatVals == {-1000, 0, 8996, 20000}

\* Prophet's uncertainty interval around yhat: yhat_lower and yhat_upper lie
\* this far (hundredths of a unit) from yhat.
IntervalHalfWidth == 1250

PredictOutcomes(days) ==
    {[raises |-> TRUE, yhat |-> <<>>]}
        \cup (IF days < 1 THEN {}
              ELSE {[raises |-> FALSE, yhat |-> y] : y \in [1..days -> YhatVals]})

\* Temperatures (degrees Fahrenheit) of the live forecast and of the random
\* forecast of _generate_mock_forecast (65 + uniform(-15, 15)).
LiveTemps == {61}

RandomTemps == {52, 78}

\* The weather provider during one get_forecast(days) call: the live API
\* answers with days items or fewer (api_data['list'][:requested_days]), or
\* it fails (no key, network error, bad status) and "data" is what the
\* random generator then draws.
WeatherEnvs(days) ==
    {[live |-> TRUE, data |-> w] :
        w \in UNION {[1..k -> LiveTemps] : k \in {j \in {days - 1, days} : j >= 0}}}
    \cup {[live |-> FALSE, data |-> w] : w \in [1..days -> RandomTemps]}

\* The environment of one get_prophet_prediction call: whether a model is
\* loaded for the product, what the weather provider does, and what
\* model.predict does.  days is days_ahead.
PredictionEnvs(days) ==
    [has_model : BOOLEAN, weather : WeatherEnvs(days), predict : PredictOutcomes(days)]

\* WeatherService._fetch_from_api
fetch_from_api(weather, days) ==
    IF weather.live THEN [raised |-> FALSE, data |-> weather.data]
    ELSE [raised |-> TRUE, data |-> <<>>]

\* WeatherService._generate_mock_forecast: the random draw
generate_mock_forecast(weather, days) == weather.data

\* WeatherService.get_forecast: every exception of the live call is caught
\* here and answered with the random forecast.
get_forecast(weather, days) ==
    LET fetched == fetch_from_api(weather, days)
    IN  IF fetched.raised
        THEN [raised |-> FALSE, data |-> generate_mock_forecast(weather, days)]
        ELSE fetched

\* The temperatures of weather_scenarios.
weather_scenarios == <<78, 68, 45, 32, 55, 82, 28>>

\* generate_mock_weather_data: day i (from 0) uses scenario i mod 7.
generate_mock_weather_data(days_ahead) ==
    [i \in 1..days_ahead |-> weather_scenarios[((i - 1) % Len(weather_scenarios)) + 1]]

ProphetPredictionUnguarded(df, env, product, days_ahead) ==
    IF ~env.has_model THEN [error |-> "No trained model"]
    ELSE IF ProductRows(df, product) = <<>> THEN [raised |-> "ValueError"]
    ELSE IF Len(get_forecast(env.weather, days_ahead).data) # days_ahead
    THEN [raised |-> "ValueError"]
    ELSE IF env.predict.raises THEN [raised |-> "Exception"]
    ELSE [product |-> product,
          forecast_days |-> days_ahead,
          predictions |->
              [i \in 1..days_ahead |->
                  [predicted_demand |-> PyRound(<<env.predict.yhat[i], 10>>),
                   temperature |-> get_forecast(env.weather, days_ahead).data[i]]],
          weather_source |-> "OpenWeather API",
          total_predicted |-> PyRound(<<SumSeq(env.predict.yhat), 10>>)]

\* get_prophet_prediction.  Of the weather only the temperature is carried;
\* the calendar columns of the rows are not modelled.
get_prophet_prediction(df, env, product, days_ahead) ==
    IF ~env.has_model THEN [error |-> "No trained model"]
    \* no row of the product: last_date is NaT and pd.date_range refuses it,
    \* outside any try
    ELSE IF ProductRows(df, product) = <<>> THEN [raised |-> "ValueError"]
    ELSE
    LET forecast == get_forecast(env.weather, days_ahead)
        weather_data == IF forecast.raised
                        THEN generate_mock_weather_data(days_ahead)
                        ELSE forecast.data
        weather_source == IF forecast.raised
                          THEN "Mock Data (API unavailable)"
                          ELSE "OpenWeather API"
    IN  \* pd.DataFrame({...}) with columns of different lengths, outside any try
        IF Len(weather_data) # days_ahead THEN [raised |-> "ValueError"]
        ELSE IF env.predict.raises THEN [error |-> "Prophet prediction failed"]
        ELSE [product |-> product,
              forecast_days |-> days_ahead,
              predictions |->
                  [i \in 1..days_ahead |->
                      [predicted_demand |-> PyRound(<<env.predict.yhat[i], 10>>),
                       lower_bound |->
                           PyRound(<<env.predict.yhat[i] - IntervalHalfWidth, 10>>),
                       upper_bound |->
                           PyRound(<<env.predict.yhat[i] + IntervalHalfWidth, 10>>),
                       temperature |-> weather_data[i]]],
              weather_source |-> weather_source,
              total_predicted |-> PyRound(<<SumSeq(env.predict.yhat), 10>>)]

\* A float that may be NaN; otherwise its value rounded to one decimal, in
\* tenths.
NaN == [nan |-> TRUE, tenths |-> 0]

Tenths(r) == [nan |-> FALSE, tenths |-> PyRound1(r)]

RECURSIVE SortByDate(_)
\* sort_values('date'): rows in date order, rows of one date in row order
SortByDate(rows) ==
    IF rows = <<>> THEN <<>>
    ELSE LET n == Len(rows)
             sorted == SortByDate(SubSeq(rows, 1, n - 1))
         IN  SelectSeq(sorted, LAMBDA r : r.date <= rows[n].date)
                 \o <<rows[n]>>
                 \o SelectSeq(sorted, LAMBDA r : r.date > rows[n].date)

\* Series.mean(): NaN for an empty series
Mean(rows, field) ==
    IF rows = <<>> THEN NaN ELSE Tenths(<<SumField(rows, field), Len(rows)>>)

\* total_wasted / (total_sold + total_wasted) * 100 on numpy integers: 0 / 0
\* is NaN (a warning, no exception)
TrendWasteRate(total_sold, total_wasted) ==
    IF total_sold + total_wasted = 0 THEN NaN
    ELSE Tenths(Rat(total_wasted * 100, total_sold + total_wasted))

\* get_sales_trend.  The day names of trend_data are not modelled.
get_sales_trend(df, product, days) ==
    LET product_data == TailRows(SortByDate(ProductRows(df, product)), days)
        total_sold == SumField(product_data, "items_sold")
        total_wasted == SumField(product_data, "items_wasted")
    IN  [product |-> product,
         period_days |-> days,
         trend_data |->
             [i \in 1..Len(product_data) |->
                 [date |-> product_data[i].date,
                  items_sold |-> product_data[i].items_sold,
                  items_wasted |-> product_data[i].items_wasted]],
         statistics |->
             [avg_daily_sold |-> Mean(product_data, "items_sold"),
              avg_daily_wasted |-> Mean(product_data, "items_wasted"),
              waste_rate_pct |-> TrendWasteRate(total_sold, total_wasted),
              total_sold |-> total_sold,
              total_wasted |-> total_wasted]]

\* get_current_status for a given date.  is_weekend and is_holiday are not
\* modelled.
get_current_status(df, product, date) ==
    LET of_product == ProductRows(df, product)
        on_date == SelectSeq(of_product, LAMBDA r : r.date = date)
        sales_today == IF on_date = <<>> THEN TailRows(of_product, 1) ELSE on_date
    IN  IF sales_today = <<>> THEN [error |-> "No data found"]
        ELSE [product |-> product,
              date |-> sales_today[1].date,
              items_sold |-> sales_today[1].items_sold,
              items_wasted |-> sales_today[1].items_wasted]

\* get_weather_correlation: an error when the merged frame is empty; the
\* correlation figures and the wording of the interpretation are not
\* modelled.
get_weather_correlation(df, product) ==
    IF ProductRows(df, product) = <<>> THEN [error |-> "Weather data not available"]
    ELSE [product |-> product, interpretation |-> "interpretation"]

\* ------------------------------------------------------------------------
\* Policy B: Database.get_discount_recommendation (waste-rate rule)
\* ------------------------------------------------------------------------

\* The window of get_discount_recommendation: .tail(7)
WindowLen == 7

WasteRate(total_sold, total_wasted) ==
    IF total_sold + total_wasted > 0
    THEN Rat(total_wasted * 100, total_sold + total_wasted)
    ELSE RInt(0)

\* performance: today's actual against today's forecast (tenths), times 100
PerformancePct(prediction, latest) ==
    IF "error" \notin DOMAIN prediction /\ prediction.predictions # <<>>
    THEN LET predicted_today == prediction.predictions[1].predicted_demand
             actual_today == latest[Len(latest)].items_sold
         IN  IF predicted_today > 0
             THEN Rat(actual_today * 10 * 100, predicted_today)
             ELSE RInt(100)
    ELSE RInt(100)

DiscountDecisionByPerformance(waste_rate, perf) ==
    IF RGt(waste_rate, RInt(15)) \/ RLt(perf, RInt(70))
    THEN IF RLt(perf, RInt(50)) THEN <<TRUE, 30, "high">>
         ELSE IF RGt(waste_rate, RInt(15)) THEN <<TRUE, 20, "medium">>
         ELSE <<TRUE, 15, "low">>
    ELSE <<FALSE, 0, "none">>

\* "Decision logic": <<needs_discount, discount, urgency>>
DiscountDecision(waste_rate, perf) ==
    IF RGt(waste_rate, RInt(15)) \/ RLt(perf, RInt(70))
    THEN IF RGt(waste_rate, RInt(25)) THEN <<TRUE, 30, "high">>
         ELSE IF RGt(waste_rate, RInt(15)) THEN <<TRUE, 20, "medium">>
         ELSE <<TRUE, 15, "low">>
    ELSE <<FALSE, 0, "none">>

\* get_discount_recommendation, env being the environment of its
\* get_prophet_prediction(product, days_ahead=1) call.  The reasoning text
\* is not modelled.
get_discount_recommendation(df, product, env) ==
    LET latest == TailRows(ProductRows(df, product), WindowLen)
        prediction == get_prophet_prediction(df, env, product, 1)
    IN  IF latest = <<>> THEN [error |-> "No recent data"]
        ELSE IF "raised" \in DOMAIN prediction THEN prediction
        ELSE
        LET waste_rate == WasteRate(SumField(latest, "items_sold"),
                                    SumField(latest, "items_wasted"))
            perf == PerformancePct(prediction, latest)
            decision == DiscountDecision(waste_rate, perf)
        IN  [product |-> product,
             needs_discount |-> decision[1],
             recommended_discount_pct |-> decision[2],
             urgency |-> decision[3],
             waste_rate_pct |-> PyRound1(waste_rate),
             performance_vs_prediction_pct |-> PyRound1(perf)]

\* No method of the Database object has returned yet.
NothingAsked == pb_result = None /\ db_result = None /\ sf_result = None

\* Database.__init__ has loaded a dataset; nothing was asked yet.
InitPolicyB ==
    /\ NoPredictor /\ NoPolicyA
    /\ sales_df \in SalesFrames
    /\ NoPolicyB /\ NoPricingInventory /\ NoDirectCall /\ NoSupplier
    /\ NoApi

\* One call on the loaded dataset (the call changes nothing it reads, so a
\* second call would see what the first saw).
GetDiscountRecommendation ==
    /\ NothingAsked
    /\ \E p \in RequestedProducts, env \in PredictionEnvs(1) :
         /\ pb_call' = [product |-> p, env |-> env]
         /\ pb_result' = get_discount_recommendation(sales_df, p, env)
    /\ UNCHANGED <<predictorVars, policyAVars, sales_df, pi_call, pi_result,
                   db_call, db_result, sf_call, sf_result, apiVars>>

NextPolicyB == GetDiscountRecommendation

SpecPolicyB == InitPolicyB /\ [][NextPolicyB]_vars

\* ------------------------------------------------------------------------
\* GeminiClient.generate: the external reasoning service
\* ------------------------------------------------------------------------

\* A JSON value: an object (a record) or, standing for every other value,
\* a number.
JsonObject(r) == [kind |-> "object", value |-> r]

JsonNumber == [kind |-> "number", value |-> None]

Decision(n, u, pct) ==
    [needs_discount |-> n, urgency |-> u, recommended_discount_pct |-> pct,
     reasoning |-> "from the reasoning service"]

\* What the service may put in the text of its answer to the pricing prompt:
\* conforming objects (one of them worded as the rule-based decision for an
\* expiry within 2 days), an object with required fields missing, a value
\* that is not an object.
PricingAnswers ==
    {JsonObject(Decision(TRUE, "high", 30)),
     JsonObject(Decision(TRUE, "high", 80)),
     JsonObject(Decision(TRUE, "low", -5)),
     JsonObject([needs_discount |-> TRUE, urgency |-> "high",
                 recommended_discount_pct |-> 30,
                 reasoning |-> "Expires in 2 days - urgent discount needed"]),
     JsonObject([needs_discount |-> TRUE, urgency |-> "high"]),
     JsonNumber}

\* The ways the call can fail before the text of an answer is parsed:
\*   unreachable, timeout, http_error: requests.post or raise_for_status
\*       raises a RequestException;
\*   body_not_json: response.json() raises requests' JSONDecodeError, a
\*       RequestException (requests 2.27 and later);
\*   body_not_json_old_requests: response.json() raises json.JSONDecodeError
\*       (earlier requests), caught by the second handler, which reads the
\*       unassigned local "result";
\*   body_wrong_type: the body is JSON but result["candidates"][0]["content"]
\*       ["parts"][0]["text"] indexes a null, a list or a string (TypeError);
\*   no_candidates: that lookup raises KeyError or IndexError;
\*   text_not_json: json.loads(response_text) raises JSONDecodeError.
FailureOutcomes ==
    {"unreachable", "timeout", "http_error", "body_not_json",
     "body_not_json_old_requests", "body_wrong_type", "no_candidates",
     "text_not_json"}

\* What requests.post and the parsing of its answer may meet.
ServiceResponses(answers) ==
    {[outcome |-> o, text |-> JsonNumber] : o \in FailureOutcomes}
    \cup {[outcome |-> "json_text", text |-> v] : v \in answers}

Raised(exception) == [kind |-> "raised", value |-> [raised |-> exception]]

\* GeminiClient.generate with a response_schema: the parsed text, an error
\* dictionary, or the exception that leaves the method.
generate(resp) ==
    IF resp.outcome \in {"unreachable", "timeout", "http_error", "body_not_json"}
    THEN JsonObject([error |-> "Request failed"])
    ELSE IF resp.outcome \in {"no_candidates", "text_not_json"}
    THEN JsonObject([error |-> "Malformed response"])
    ELSE IF resp.outcome = "body_wrong_type" THEN Raised("TypeError")
    ELSE IF resp.outcome = "body_not_json_old_requests" THEN Raised("UnboundLocalError")
    ELSE resp.text

\* ------------------------------------------------------------------------
\* PricingInventoryAgent
\* ------------------------------------------------------------------------

\* Days until the nearest expiry that Database.get_inventory_status reports.
DaysUntilVals == {2, 4, 5}

\* What Database.get_inventory_status returns: an error, or the stock of the
\* product with its nearest expiry.
InventoryStatuses ==
    {[error |-> "No inventory"]}
    \cup {[total_quantity |-> 10, days_until_nearest_expiry |-> d,
           nearest_expiration_date |-> d] : d \in DaysUntilVals}

\* _fallback_pricing_logic
fallback_pricing_logic(days_until_expiry, quantity, waste_stats) ==
    IF days_until_expiry <= 2
    THEN [needs_discount |-> TRUE, urgency |-> "high",
          recommended_discount_pct |-> 30,
          reasoning |-> "Expires in 2 days - urgent discount needed"]
    ELSE IF days_until_expiry <= 4
    THEN [needs_discount |-> TRUE, urgency |-> "medium",
          recommended_discount_pct |-> 20,
          reasoning |-> "Approaching expiration - moderate discount recommended"]
    ELSE [needs_discount |-> FALSE, urgency |-> "none",
          recommended_discount_pct |-> 0,
          reasoning |-> "Sufficient time before expiration"]

\* The dictionary PricingInventoryAgent.analyze builds from the decision.
PricingResult(product, inventory, decision, waste_stats) ==
    [product |-> product,
     quantity_on_hand |-> inventory.total_quantity,
     days_until_expiry |-> inventory.days_until_nearest_expiry,
     expiration_date |-> inventory.nearest_expiration_date,
     needs_discount |-> decision.needs_discount,
     urgency |-> decision.urgency,
     recommended_discount_pct |-> decision.recommended_discount_pct,
     reasoning |-> decision.reasoning,
     waste_rate_pct |-> IF "waste_rate_pct" \in DOMAIN waste_stats
                        THEN waste_stats.waste_rate_pct ELSE 0]

\* PricingInventoryAgent.analyze, given what get_inventory_status returned,
\* the waste statistics and what the reasoning service answered.
PricingInventoryAgent_analyze(product, inventory, waste_stats, resp) ==
    IF "error" \in DOMAIN inventory THEN inventory
    ELSE IF "raised" \in DOMAIN waste_stats THEN waste_stats
    ELSE
    LET returned == generate(resp)
    IN  IF returned.kind = "raised" THEN returned.value
        \* "error" in <number>
        ELSE IF returned.kind # "object" THEN [raised |-> "TypeError"]
        ELSE
        LET decision ==
                IF "error" \in DOMAIN returned.value
                THEN fallback_pricing_logic(inventory.days_until_nearest_expiry,
                                            inventory.total_quantity, waste_stats)
                ELSE returned.value
        IN  IF {"needs_discount", "urgency", "recommended_discount_pct", "reasoning"}
                   \subseteq DOMAIN decision
            THEN PricingResult(product, inventory, decision, waste_stats)
            ELSE [raised |-> "KeyError"]

\* Database.__init__ has loaded a dataset; the agent has analysed nothing.
InitPricingInventory ==
    /\ NoPredictor /\ NoPolicyA
    /\ sales_df \in SalesFrames
    /\ NoPolicyB /\ NoPricingInventory /\ NoDirectCall /\ NoSupplier
    /\ NoApi

\* One analyze call.  Its call of get_discount_recommendation is recorded
\* in pb_call and pb_result.
AnalyzePricingInventory ==
    /\ pi_result = None
    /\ \E p \in RequestedProducts, inventory \in InventoryStatuses,
          env \in PredictionEnvs(1), resp \in ServiceResponses(PricingAnswers) :
         LET waste_stats == get_discount_recommendation(sales_df, p, env)
         IN  /\ pi_call' = [product |-> p, inventory |-> inventory, response |-> resp]
             /\ pi_result' = PricingInventoryAgent_analyze(p, inventory, waste_stats, resp)
             /\ IF "error" \in DOMAIN inventory
                THEN UNCHANGED <<pb_call, pb_result>>
                ELSE /\ pb_call' = [product |-> p, env |-> env]
                     /\ pb_result' = waste_stats
    /\ UNCHANGED <<predictorVars, policyAVars, sales_df,
                   db_call, db_result, sf_call, sf_result, apiVars>>

NextPricingInventory == AnalyzePricingInventory

SpecPricingInventory == InitPricingInventory /\ [][NextPricingInventory]_vars

\* ------------------------------------------------------------------------
\* SupplierForecastAgent
\* ------------------------------------------------------------------------

\* The rule-based order: forecast_total * 1.1 (forecast_total in tenths, the
\* quantity in units).  The number inside the reasoning text is not modelled.
fallback_order(forecast_total) ==
    [recommended_order_quantity |-> <<forecast_total * 11, 100>>,
     reasoning |-> "Order adjusted based on forecast analysis with 10% safety stock."]

\* What the service may put in the text of its answer to the order prompt:
\* conforming objects (one of them worded as the rule-based order for a
\* forecast of 200 units), an object without the quantity, a value that is
\* not an object.
OrderAnswers ==
    {JsonObject([recommended_order_quantity |-> RInt(100),
                 reasoning |-> "from the reasoning service"]),
     JsonObject([recommended_order_quantity |-> RInt(-5),
                 reasoning |-> "from the reasoning service"]),
     JsonObject(fallback_order(2000)),
     JsonObject([reasoning |-> "from the reasoning service"]),
     JsonNumber}

\* SupplierForecastAgent.forecast_and_order, given the environment of its
\* get_prophet_prediction call and what the reasoning service answered.
forecast_and_order(df, product, days_ahead, env, resp) ==
    LET forecast == get_prophet_prediction(df, env, product, days_ahead)
    IN  IF "raised" \in DOMAIN forecast THEN forecast
        ELSE IF "error" \in DOMAIN forecast THEN forecast
        ELSE
        LET historical == get_sales_trend(df, product, 30)
            avg_daily_sold == historical.statistics.avg_daily_sold
            historical_avg_weekly == [avg_daily_sold EXCEPT !.tenths = @ * 7]
            weather == get_weather_correlation(df, product)
            forecast_total == forecast.total_predicted
            change_pct ==
                IF ~historical_avg_weekly.nan /\ historical_avg_weekly.tenths > 0
                THEN Rat((forecast_total - historical_avg_weekly.tenths) * 100,
                         historical_avg_weekly.tenths)
                ELSE RInt(0)
            returned == generate(resp)
        IN  IF returned.kind = "raised" THEN returned.value
            \* "error" in <number>
            ELSE IF returned.kind # "object" THEN [raised |-> "TypeError"]
            ELSE
            LET order == IF "error" \in DOMAIN returned.value
                             THEN fallback_order(forecast_total)
                             ELSE returned.value
            IN  IF {"recommended_order_quantity", "reasoning"} \subseteq DOMAIN order
                THEN [product |-> product,
                      forecast_days |-> days_ahead,
                      daily_forecast |-> forecast.predictions,
                      total_predicted_demand |-> forecast_total,
                      historical_weekly_avg |-> historical_avg_weekly,
                      change_percentage |-> change_pct,
                      recommended_order_quantity |-> order.recommended_order_quantity,
                      reasoning |-> order.reasoning,
                      weather_impact |-> IF "interpretation" \in DOMAIN weather
                                         THEN weather.interpretation ELSE ""]
                ELSE [raised |-> "KeyError"]

\* ------------------------------------------------------------------------
\* The Database object and its callers: one request on the loaded dataset
\* ------------------------------------------------------------------------

\* days_ahead of a direct get_prophet_prediction call
DirectDaysAhead == {0, 1, 2}

\* days of a get_sales_trend call (30 is the default)
TrendDays == {1, 30}

\* date of a get_current_status call
StatusDates == {1, 2, 3}

GetProphetPrediction ==
    /\ NothingAsked
    /\ \E p \in RequestedProducts, d \in DirectDaysAhead :
         \E env \in PredictionEnvs(d) :
            /\ db_call' = [op |-> "get_prophet_prediction", product |-> p,
                           days_ahead |-> d, env |-> env]
            /\ db_result' = get_prophet_prediction(sales_df, env, p, d)
    /\ UNCHANGED <<predictorVars, policyAVars, sales_df, pb_call, pb_result,
                   pi_call, pi_result, sf_call, sf_result, apiVars>>

GetSalesTrend ==
    /\ NothingAsked
    /\ \E p \in RequestedProducts, d \in TrendDays :
         /\ db_call' = [op |-> "get_sales_trend", product |-> p, days |-> d]
         /\ db_result' = get_sales_trend(sales_df, p, d)
    /\ UNCHANGED <<predictorVars, policyAVars, sales_df, pb_call, pb_result,
                   pi_call, pi_result, sf_call, sf_result, apiVars>>

GetCurrentStatus ==
    /\ NothingAsked
    /\ \E p \in RequestedProducts, d \in StatusDates :
         /\ db_call' = [op |-> "get_current_status", product |-> p, date |-> d]
         /\ db_result' = get_current_status(sales_df, p, d)
    /\ UNCHANGED <<predictorVars, policyAVars, sales_df, pb_call, pb_result,
                   pi_call, pi_result, sf_call, sf_result, apiVars>>

\* One forecast_and_order call for the next day.
ForecastAndOrder ==
    /\ NothingAsked
    /\ \E p \in RequestedProducts, env \in PredictionEnvs(1),
          resp \in ServiceResponses(OrderAnswers) :
         /\ sf_call' = [product |-> p, days_ahead |-> 1, env |-> env,
                        forecast |-> get_prophet_prediction(sales_df, env, p, 1),
                        response |-> resp]
         /\ sf_result' = forecast_and_order(sales_df, p, 1, env, resp)
    /\ UNCHANGED <<predictorVars, policyAVars, sales_df, pb_call, pb_result,
                   pi_call, pi_result, db_call, db_result, apiVars>>

NextDatabase ==
    \/ GetDiscountRecommendation
    \/ GetProphetPrediction
    \/ GetSalesTrend
    \/ GetCurrentStatus
    \/ ForecastAndOrder

SpecDatabase == InitPolicyB /\ [][NextDatabase]_vars

\* ------------------------------------------------------------------------
\* The HTTP entry points: POST /api/forecast (main.py), POST
\* /api/forecast/enhanced and POST /api/analytics/insights (enhanced_api.py)
\* ------------------------------------------------------------------------

\* 'days' of a request body.
ApiDays == {1, 2}

\* The JSON body of a forecast request: a value that is not an object (null,
\* a list, a number), or an object whose 'product' is absent ("") or names a
\* product, with 'days' and without inventory_data.
ForecastBodies ==
    {[is_object |-> FALSE, product |-> "", days |-> 1]}
        \cup [is_object : {TRUE}, product : {"", "Milk", "Eggs"}, days : ApiDays]

\* The files of the models directory: the products with an
\* enhanced_<product>_model.pkl and with a <product>_model.pkl.
ModelDirs == [enhanced : SUBSET {"Milk"}, basic : SUBSET {"Milk"}]

\* The environment of one forecast request: the model files, and what the
\* computation after the model was found does (pickle.load, the weather
\* frame, predict): it raises, or predicts one value per day.
ForecastEnvs(days) == [models : ModelDirs, predict : PredictOutcomes(days)]

\* return jsonify({'error': ...}), status
ErrorResponse(status, message) ==
    [tuple |-> TRUE, status |-> status, payload |-> [error |-> message]]

\* return jsonify(payload): a bare Response, which Flask sends as 200
BareResponse(payload) == [tuple |-> FALSE, status |-> 200, payload |-> payload]

\* A point of the basic Prophet branches: round(yhat), round(yhat_lower),
\* round(yhat_upper).
BasicPoint(yhat) ==
    [predicted_demand |-> PyRound(<<yhat, 100>>),
     lower_bound |-> PyRound(<<yhat - IntervalHalfWidth, 100>>),
     upper_bound |-> PyRound(<<yhat + IntervalHalfWidth, 100>>)]

\* A point of the enhanced-ensemble branch: round(pred), round(pred * 0.85),
\* round(pred * 1.15).
EnsemblePoint(pred) ==
    [predicted_demand |-> PyRound(<<pred, 100>>),
     lower_bound |-> PyRound(RMul(<<pred, 100>>, <<85, 100>>)),
     upper_bound |-> PyRound(RMul(<<pred, 100>>, <<115, 100>>))]

\* main.generate_forecast
generate_forecast(body, env) ==
    \* data.get on a value that is not a dict: AttributeError, caught at line 178
    IF ~body.is_object THEN ErrorResponse(500, "exception")
    ELSE IF body.product = "" THEN ErrorResponse(400, "Product name is required")
    ELSE IF body.product \notin env.models.basic THEN ErrorResponse(404, "Model not found")
    ELSE IF env.predict.raises THEN ErrorResponse(500, "exception")
    ELSE BareResponse(
            [product |-> body.product,
             predictions |-> [i \in 1..body.days |-> BasicPoint(env.predict.yhat[i])]])

\* enhanced_api.generate_enhanced_forecast, for a body without inventory_data
\* (the inventory recommendation is then skipped).
generate_enhanced_forecast(body, env) ==
    IF ~body.is_object THEN ErrorResponse(500, "exception")
    ELSE IF body.product = "" THEN ErrorResponse(400, "Product name is required")
    ELSE IF body.product \in env.models.enhanced
    THEN IF env.predict.raises THEN ErrorResponse(500, "exception")
         ELSE BareResponse(
                [product |-> body.product,
                 model_type |-> "enhanced_ensemble",
                 predictions |-> [i \in 1..body.days |-> EnsemblePoint(env.predict.yhat[i])],
                 days_ahead |-> body.days])
    ELSE IF body.product \in env.models.basic
    THEN IF env.predict.raises THEN ErrorResponse(500, "exception")
         ELSE BareResponse(
                [product |-> body.product,
                 model_type |-> "basic_prophet",
                 predictions |-> [i \in 1..body.days |-> BasicPoint(env.predict.yhat[i])],
                 days_ahead |-> body.days])
    ELSE ErrorResponse(404, "No model found")

\* The JSON body of an analytics request: not an object, or an object with
\* the 'products' list, possibly a 'product' key as well, 'days', and no
\* inventory_data.
AnalyticsBodies ==
    {[is_object |-> FALSE, products |-> <<>>, product |-> "", days |-> 1]}
        \cup [is_object : {TRUE},
              products : {<<>>, <<"Milk">>, <<"Milk", "Eggs">>},
              product : {"", "Milk"},
              days : ApiDays]

\* enhanced_api.get_analytics_insights.  Every pass of the loop calls
\* generate_enhanced_forecast() without arguments: it reads the JSON of the
\* analytics request itself, so every pass gets the same answer, and the
\* test forecast_response[1] == 200 indexes what it returned - a bare
\* Response is not subscriptable (TypeError, caught at line 271).
get_analytics_insights(body, env) ==
    IF ~body.is_object THEN ErrorResponse(500, "exception")
    ELSE
    LET forecast_response == generate_enhanced_forecast(body, env)
        analysed ==
            IF forecast_response.status = 200
            THEN {body.products[i] : i \in 1..Len(body.products)}
            ELSE {}
    IN  IF body.products # <<>> /\ ~forecast_response.tuple
        THEN ErrorResponse(500, "exception")
        ELSE BareResponse(
                [summary |-> [total_products_analyzed |-> Len(body.products)],
                 products |-> [p \in analysed |-> [forecast |-> forecast_response.payload]],
                 recommendations |-> <<>>])

\* No chat request has arrived and no forecast request was answered.
ApiIdle == api_result = None /\ \A r \in ChatRequests : chat_req[r].pc = "idle"

GenerateForecast ==
    /\ ApiIdle
    /\ \E body \in ForecastBodies : \E env \in ForecastEnvs(body.days) :
         /\ api_call' = [endpoint |-> "/api/forecast", body |-> body, env |-> env]
         /\ api_result' = generate_forecast(body, env)
    /\ UNCHANGED <<predictorVars, policyAVars, databaseVars,
                   sessions, session_dicts, chat_req>>

GenerateEnhancedForecast ==
    /\ ApiIdle
    /\ \E body \in ForecastBodies : \E env \in ForecastEnvs(body.days) :
         /\ api_call' = [endpoint |-> "/api/forecast/enhanced", body |-> body, env |-> env]
         /\ api_result' = generate_enhanced_forecast(body, env)
    /\ UNCHANGED <<predictorVars, policyAVars, databaseVars,
                   sessions, session_dicts, chat_req>>

GetAnalyticsInsights ==
    /\ ApiIdle
    /\ \E body \in AnalyticsBodies : \E env \in ForecastEnvs(body.days) :
         /\ api_call' = [endpoint |-> "/api/analytics/insights", body |-> body, env |-> env]
         /\ api_result' = get_analytics_insights(body, env)
    /\ UNCHANGED <<predictorVars, policyAVars, databaseVars,
                   sessions, session_dicts, chat_req>>

\* ------------------------------------------------------------------------
\* POST /api/chat (main.chat): requests served by concurrent threads
\* ------------------------------------------------------------------------

\* The JSON body of a chat request: not an object, or an object with or
\* without 'message' and 'session_id'.
ChatBodies ==
    {[is_object |-> FALSE, has_message |-> FALSE, session_id |-> NoSessionId]}
        \cup [is_object : {TRUE}, has_message : BOOLEAN,
              session_id : ClientSessionIds \cup {NoSessionId}]

\* chatbot.handle_message returns {"response": ...}, or raises (generate_text
\* raises on every error of the reasoning service, the database calls of
\* _gather_data may raise).
HandleOutcomes == {"response", "raised"}

\* The entry appended for request r; its message is told from the others'.
Entry(r) == [user |-> <<"message", r>>, assistant |-> "response"]

Finished(body, status) ==
    [NoRequest EXCEPT !.pc = "done", !.body = body, !.status = status]

ChatReceiveSetDefault(r) ==
    /\ api_result = None
    /\ chat_req[r].pc = "idle"
    /\ \E body \in ChatBodies :
         IF ~body.is_object
         THEN /\ chat_req' = [chat_req EXCEPT ![r] = Finished(body, 500)]
              /\ UNCHANGED sessions
         ELSE IF ~body.has_message
         THEN /\ chat_req' = [chat_req EXCEPT ![r] = Finished(body, 400)]
              /\ UNCHANGED sessions
         ELSE LET sid == IF body.session_id = NoSessionId THEN uuid4(r)
                         ELSE body.session_id
                  dict == IF sessions[sid] # 0 THEN sessions[sid] ELSE r
              IN  /\ chat_req' =
                        [chat_req EXCEPT ![r] =
                            [pc |-> "handling", body |-> body, session_id |-> sid,
                             session_data |-> dict, status |-> 0]]
                  /\ sessions' = [sessions EXCEPT ![sid] = dict]
    /\ UNCHANGED <<predictorVars, policyAVars, databaseVars,
                   api_call, api_result, session_dicts>>

\* Lines 184-195: the body is read, a missing message is answered with 400,
\* the session id is taken or made, and session_data becomes the stored
\* dictionary of the session or a new {"history": []}.  data.get on a body
\* that is not a dict raises AttributeError outside the try: Flask answers 500.
ChatReceive(r) ==
    /\ api_result = None
    /\ chat_req[r].pc = "idle"
    /\ \E body \in ChatBodies :
         IF ~body.is_object
         THEN chat_req' = [chat_req EXCEPT ![r] = Finished(body, 500)]
         ELSE IF ~body.has_message
         THEN chat_req' = [chat_req EXCEPT ![r] = Finished(body, 400)]
         ELSE LET sid == IF body.session_id = NoSessionId THEN uuid4(r)
                         ELSE body.session_id
                  dict == IF sessions[sid] # 0 THEN sessions[sid] ELSE r
              IN  chat_req' =
                    [chat_req EXCEPT ![r] =
                        [pc |-> "handling", body |-> body, session_id |-> sid,
                         session_data |-> dict, status |-> 0]]
    /\ UNCHANGED <<predictorVars, policyAVars, databaseVars,
                   api_call, api_result, sessions, session_dicts>>

\* Line 199: chatbot.handle_message; an exception is answered with 500.
ChatHandle(r) ==
    /\ chat_req[r].pc = "handling"
    /\ \E outcome \in HandleOutcomes :
         chat_req' = [chat_req EXCEPT ![r] =
                        IF outcome = "raised"
                        THEN [@ EXCEPT !.pc = "done", !.status = 500]
                        ELSE [@ EXCEPT !.pc = "append"]]
    /\ UNCHANGED <<predictorVars, policyAVars, databaseVars,
                   api_call, api_result, sessions, session_dicts>>

\* Lines 202-205: session_data["history"].append(...)
ChatAppend(r) ==
    /\ chat_req[r].pc = "append"
    /\ session_dicts' = [session_dicts EXCEPT ![chat_req[r].session_data] =
                            Append(@, Entry(r))]
    /\ chat_req' = [chat_req EXCEPT ![r].pc = "store"]
    /\ UNCHANGED <<predictorVars, policyAVars, databaseVars,
                   api_call, api_result, sessions>>

\* Lines 206-212: sessions[session_id] = session_data, and the answer.
ChatStore(r) ==
    /\ chat_req[r].pc = "store"
    /\ sessions' = [sessions EXCEPT ![chat_req[r].session_id] = chat_req[r].session_data]
    /\ chat_req' = [chat_req EXCEPT ![r].pc = "done", ![r].status = 200]
    /\ UNCHANGED <<predictorVars, policyAVars, databaseVars,
                   api_call, api_result, session_dicts>>

InitApi == NoPredictor /\ NoPolicyA /\ NoDatabase /\ NoApi

NextApi ==
    \/ GenerateForecast
    \/ GenerateEnhancedForecast
    \/ GetAnalyticsInsights
    \/ \E r \in ChatRequests :
         ChatReceive(r) \/ ChatHandle(r) \/ ChatAppend(r) \/ ChatStore(r)

SpecApi == InitApi /\ [][NextApi]_vars

\* The chat requests served one at a time: a request is received when no
\* other request is in flight.
ChatReceiveAlone(r) ==
    /\ \A q \in ChatRequests : chat_req[q].pc \in {"idle", "done"}
    /\ ChatReceive(r)

NextChatSequential ==
    \E r \in ChatRequests :
        ChatReceiveAlone(r) \/ ChatHandle(r) \/ ChatAppend(r) \/ ChatStore(r)

SpecChatSequential == InitApi /\ [][NextChatSequential]_vars

\* ------------------------------------------------------------------------
\* Properties of the order recommender
\* ------------------------------------------------------------------------

\* The running call returned a recommendation (it did not raise).
OrderReturned == phase = "returned" /\ "raised" \notin DOMAIN order_rec

\* The requested product has a batch in the snapshot.
ProductPresent == InSummary(inventory_data, order_call.product)

\* The inputs of the finished call, restated from the call's arguments:
\* the quantities on hand of the requested product, the demand total (tenths)
\* over the first days_ahead entries.
CallQty ==
    LET S == {i \in 1..Len(inventory_data) : inventory_data[i].product = order_call.product}
        RECURSIVE Sum(_)
        Sum(T) == IF T = {} THEN 0
                  ELSE LET i == CHOOSE j \in T : TRUE
                       IN  inventory_data[i].quantity + Sum(T \ {i})
    IN  Sum(S)

DemandTotal(pd, d) ==
    LET RECURSIVE Sum(_)
        Sum(k) == IF k = 0 THEN 0 ELSE pd[k] + Sum(k - 1)
    IN  Sum(IF d < Len(pd) THEN d ELSE Len(pd))

CallTotal == DemandTotal(order_call.predicted_demand, order_call.days_ahead)

\* With D = days_ahead >= 1, Q = total_current, E = expiring_soon (units) and
\* T = total demand (tenths): avg = T/(10 D), and every comparison of the
\* recommender multiplied through by 10 D.
DoiBelow(n, Q, T, D) == T > 0 /\ 10 * D * Q < n * T

DoiAbove(n, Q, T, D) == T <= 0 \/ 10 * D * Q > n * T

\* waste_risk * 10 D
WasteRiskScaled(E, T, D) == IF 10 * D * E - 5 * T > 0 THEN 10 * D * E - 5 * T ELSE 0

PosPart(x) == IF x > 0 THEN x ELSE 0

\* The tier rule as the specification words it: <<order * 10 D, confidence, reason>>.
ClaimedTier(Q, E, T, D) ==
    IF DoiBelow(3, Q, T, D)
    THEN <<PosPart(D * T - 10 * D * Q + 2 * T), "high",
           "Critical stock level - immediate order needed">>
    ELSE IF DoiBelow(7, Q, T, D)
    THEN <<PosPart(D * T - 10 * D * Q + 3 * T), "high",
           "Low stock level - order recommended">>
    ELSE IF WasteRiskScaled(E, T, D) > T
    THEN <<PosPart(D * T - 10 * D * Q), "medium",
           "High waste risk - order only if needed">>
    ELSE IF DoiAbove(14, Q, T, D)
    THEN <<0, "high", "Overstocked - no order needed">>
    ELSE <<PosPart(D * T - 10 * D * Q + 2 * T), "medium",
           "Normal stock level - standard order">>

ClaimedReduced(E, T, D) == WasteRiskScaled(E, T, D) > 2 * T

\* C1: for a product present in the snapshot and days_ahead >= 1 the call
\* returns a recommendation whose recommended_order is >= 0, whatever the
\* demand values (negative ones included), the tier, the 0.7 reduction and
\* the rounding.
C1_OrderNonNegative ==
    (phase = "returned" /\ ProductPresent /\ order_call.days_ahead >= 1)
        => (OrderReturned /\ order_rec.recommended_order >= 0)

\* A positive order that went through the 0.7 reduction and the rounding.
C1_Witness ==
    /\ OrderReturned /\ ProductPresent /\ order_call.days_ahead >= 1
    /\ order_rec.reason = "High waste risk - order only if needed (reduced due to waste risk)"
    /\ order_rec.recommended_order = 1

\* C2: the tier is picked by the first matching rule (critical, low, high
\* waste risk, overstocked, normal), with the order, confidence and reason
\* of that rule; the returned order is that order, times 0.7 when the
\* waste-risk reduction applies, rounded.
C2_TierRule ==
    (OrderReturned /\ ProductPresent /\ order_call.days_ahead >= 1) =>
        LET D == order_call.days_ahead
            Q == CallQty
            E == order_rec.expiring_soon
            T == CallTotal
            tier == ClaimedTier(Q, E, T, D)
            red == ClaimedReduced(E, T, D)
        IN  /\ order_rec.current_inventory = Q
            /\ order_rec.predicted_demand = T
            /\ order_rec.confidence = tier[2]
            /\ order_rec.reason =
                 (IF red THEN tier[3] \o " (reduced due to waste risk)" ELSE tier[3])
            /\ order_rec.recommended_order =
                 PyRound(<<tier[1] * (IF red THEN 7 ELSE 10), 100 * D>>)
            /\ (order_rec.reason = "Overstocked - no order needed"
                    => order_rec.recommended_order = 0)

\* The scenario total_current = 10, avg_daily_demand = 5, expiring_soon = 0:
\* critical tier, confidence high, order max(0, total_demand - 10 + 10).
C2_Witness ==
    /\ OrderReturned /\ ProductPresent /\ order_call.days_ahead = 2
    /\ order_rec.current_inventory = 10
    /\ order_rec.expiring_soon = 0
    /\ order_rec.predicted_demand = 100
    /\ order_rec.reason = "Critical stock level - immediate order needed"
    /\ order_rec.confidence = "high"
    /\ order_rec.recommended_order = 10

\* C3: order_priority is URGENT iff days_of_inventory < 3; otherwise HIGH iff
\* days_of_inventory < 7 or waste_risk > 10; otherwise MEDIUM iff
\* days_of_inventory < 14; otherwise LOW - whatever the tier and confidence.
C3_Priority ==
    (OrderReturned /\ ProductPresent /\ order_call.days_ahead >= 1) =>
        LET D == order_call.days_ahead
            Q == CallQty
            E == order_rec.expiring_soon
            T == CallTotal
        IN  order_rec.order_priority =
              (IF DoiBelow(3, Q, T, D) THEN "URGENT"
               ELSE IF DoiBelow(7, Q, T, D) \/ WasteRiskScaled(E, T, D) > 100 * D THEN "HIGH"
               ELSE IF DoiBelow(14, Q, T, D) THEN "MEDIUM"
               ELSE "LOW")

\* Priority HIGH through waste_risk > 10 alone, in the overstocked-range
\* of days_of_inventory, in a tier of confidence medium.
C3_Witness ==
    /\ OrderReturned /\ ProductPresent /\ order_call.days_ahead >= 1
    /\ DoiAbove(14, CallQty, CallTotal, order_call.days_ahead)
    /\ order_rec.confidence = "medium"
    /\ order_rec.order_priority = "HIGH"

\* C4: when the product has no batch in the snapshot the call returns order
\* 0, confidence low, reason 'No current inventory data', for every
\* predicted demand and every days_ahead (0 and negative included).
C4_AbsentProduct ==
    (phase = "returned" /\ ~ProductPresent) =>
        /\ OrderReturned
        /\ order_rec.product = order_call.product
        /\ order_rec.recommended_order = 0
        /\ order_rec.confidence = "low"
        /\ order_rec.reason = "No current inventory data"

\* The product is absent from a non-empty snapshot and days_ahead is 0.
C4_Witness ==
    /\ OrderReturned /\ ~ProductPresent
    /\ inventory_data # <<>>
    /\ order_call.days_ahead = 0
    /\ order_call.predicted_demand # <<>>
    /\ order_rec.recommended_order = 0

\* C5: every returned recommendation, the one for an absent product
\* included, carries a recommended order, a confidence in {low, medium, high}
\* and a priority in {LOW, MEDIUM, HIGH, URGENT}.
C5_CompleteRecommendation ==
    OrderReturned =>
        /\ {"recommended_order", "confidence", "order_priority"} \subseteq DOMAIN order_rec
        /\ order_rec.confidence \in {"low", "medium", "high"}
        /\ order_rec.order_priority \in {"LOW", "MEDIUM", "HIGH", "URGENT"}

\* A zero-inventory snapshot for the requested product, default days_ahead.
ZeroInventoryCall ==
    /\ OrderReturned /\ ProductPresent
    /\ order_call.days_ahead = 7
    /\ \A i \in 1..Len(inventory_data) :
          inventory_data[i].product = order_call.product => inventory_data[i].quantity = 0
    /\ CallTotal >= 0

\* The order the predictor returns for another forecast on the same snapshot.
OrderFor(pd) ==
    calculate_optimal_order_quantity(inventory_data, current_date,
                                     order_call.product, pd, 7).recommended_order

\* C6 as claimed: with zero inventory and days_ahead = 7 the order is
\* strictly increasing in the total predicted demand.
C6_StrictlyIncreasing ==
    ZeroInventoryCall =>
        \A pd \in DemandSeqs :
            DemandTotal(pd, 7) > CallTotal => OrderFor(pd) > order_rec.recommended_order

\* C6 as amended: the order never decreases when the total grows, and
\* strictly increases when the total grows by at least one whole unit.
C6_Monotone ==
    ZeroInventoryCall =>
        \A pd \in DemandSeqs :
            /\ DemandTotal(pd, 7) > CallTotal => OrderFor(pd) >= order_rec.recommended_order
            /\ DemandTotal(pd, 7) >= CallTotal + 10 => OrderFor(pd) > order_rec.recommended_order

\* Two totals one unit apart or more on a zero-inventory snapshot, the
\* larger one getting the larger order.
C6_Witness ==
    /\ ZeroInventoryCall
    /\ CallTotal = 11
    /\ order_rec.recommended_order = 1
    /\ \E pd \in DemandSeqs : DemandTotal(pd, 7) = 1 /\ OrderFor(pd) = 0

\* ------------------------------------------------------------------------
\* Properties of Policy A
\* ------------------------------------------------------------------------

PolicyAReturned == pa_result # None

\* C7: for every performance >= 0 and every hours_to_expiry (negative
\* included) the recommended_discount returned by analyze is in [0, 50].
C7_DiscountInRange ==
    (PolicyAReturned /\ (pa_call.predicted_sales <= 0 \/ pa_call.actual_sales >= 0)) =>
        (pa_result.recommended_discount >= 0 /\ pa_result.recommended_discount <= 50)

\* An already expired product that sold nothing: 50 + 40 before the cap.
C7_Witness ==
    /\ PolicyAReturned
    /\ pa_call.actual_sales = 0 /\ pa_call.predicted_sales = 10
    /\ pa_call.hours_to_expiry = -48
    /\ pa_result.recommendation = "discount"
    /\ pa_result.recommended_discount = 50

\* C8: performance is actual/predicted (1.0 when predicted <= 0); below 0.6
\* with less than 48 h to expiry the result is 'discount' with
\* min(round((1 - performance) * 50 + max(0, (48 - hours) / 48) * 20), 50);
\* else above 0.9 it is 'no_action' with 0; else 'monitor' with 0.
C8_PolicyA ==
    PolicyAReturned =>
        LET a == pa_call.actual_sales
            b == pa_call.predicted_sales
            h == pa_call.hours_to_expiry
            raw == PyRound(<<(b - a) * 50 * 48 + PosPart(48 - h) * 20 * b, 48 * b>>)
        IN  IF b > 0 /\ 10 * a < 6 * b /\ h < 48
            THEN /\ pa_result.recommendation = "discount"
                 /\ pa_result.recommended_discount = (IF raw < 50 THEN raw ELSE 50)
            ELSE IF b <= 0 \/ 10 * a > 9 * b
            THEN /\ pa_result.recommendation = "no_action"
                 /\ pa_result.recommended_discount = 0
            ELSE /\ pa_result.recommendation = "monitor"
                 /\ pa_result.recommended_discount = 0

\* The scenario performance = 0.5, hours_to_expiry = 24: discount 35.
C8_Witness ==
    /\ PolicyAReturned
    /\ pa_call.actual_sales = 5 /\ pa_call.predicted_sales = 10
    /\ pa_call.hours_to_expiry = 24
    /\ pa_result.performance_ratio = 50
    /\ pa_result.recommendation = "discount"
    /\ pa_result.recommended_discount = 35

\* ------------------------------------------------------------------------
\* Properties of Policy B
\* ------------------------------------------------------------------------

\* get_discount_recommendation returned a recommendation.
PolicyBReturned ==
    pb_result # None /\ "recommended_discount_pct" \in DOMAIN pb_result

\* The inputs of the decision, restated from the dataset and the call: the
\* totals over the last 7 rows of the product, today's actual and forecast.
WindowIdx ==
    LET idx == {i \in 1..Len(sales_df) : sales_df[i].product = pb_call.product}
    IN  {i \in idx : Cardinality({j \in idx : j > i}) < 7}

WindowTotal(field) ==
    LET RECURSIVE Sum(_)
        Sum(T) == IF T = {} THEN 0
                  ELSE LET i == CHOOSE j \in T : TRUE
                       IN  sales_df[i][field] + Sum(T \ {i})
    IN  Sum(WindowIdx)

\* waste_rate_pct > n
WasteRateAbove(n) ==
    LET sold == WindowTotal("items_sold")
        wasted == WindowTotal("items_wasted")
    IN  sold + wasted > 0 /\ 100 * wasted > n * (sold + wasted)

\* performance_pct < n, the forecast being yhat rounded to one decimal
PerformanceBelow(n) ==
    LET env == pb_call.env
        last == CHOOSE i \in WindowIdx : \A j \in WindowIdx : j <= i
        forecast == PyRound(<<env.predict.yhat[1], 10>>)
    IN  /\ env.has_model /\ ~env.predict.raises
        /\ forecast > 0
        /\ 1000 * sales_df[last].items_sold < n * forecast

\* C9: needs_discount = (waste_rate_pct > 15 or performance_pct < 70); with
\* it the result is (high, 30) if waste_rate_pct > 25, (medium, 20) if
\* waste_rate_pct > 15, (low, 15) otherwise; without it (none, 0).
C9_PolicyB ==
    PolicyBReturned =>
        LET needs == WasteRateAbove(15) \/ PerformanceBelow(70)
        IN  /\ pb_result.needs_discount = needs
            /\ <<pb_result.urgency, pb_result.recommended_discount_pct>> =
                 (IF ~needs THEN <<"none", 0>>
                  ELSE IF WasteRateAbove(25) THEN <<"high", 30>>
                  ELSE IF WasteRateAbove(15) THEN <<"medium", 20>>
                  ELSE <<"low", 15>>)

\* The scenario waste_rate_pct = 28, performance_pct = 80.
C9_Witness ==
    /\ PolicyBReturned
    /\ pb_result.waste_rate_pct = 280
    /\ pb_result.performance_vs_prediction_pct = 800
    /\ pb_result.needs_discount = TRUE
    /\ pb_result.urgency = "high"
    /\ pb_result.recommended_discount_pct = 30

\* ------------------------------------------------------------------------
\* Properties of PricingInventoryAgent
\* ------------------------------------------------------------------------

\* PricingInventoryAgent.analyze returned a pricing result.
PricingReturned ==
    pi_result # None /\ "recommended_discount_pct" \in DOMAIN pi_result

\* C10: recommended_discount_pct lies in [0, 50] in every result of
\* PricingInventoryAgent.analyze and of get_discount_recommendation, also
\* when the reasoning service supplied the value.
C10_DiscountClamped ==
    /\ PolicyBReturned =>
          (pb_result.recommended_discount_pct >= 0 /\ pb_result.recommended_discount_pct <= 50)
    /\ PricingReturned =>
          (pi_result.recommended_discount_pct >= 0 /\ pi_result.recommended_discount_pct <= 50)

\* The reasoning service was called: the inventory lookup and the waste
\* statistics before the call both returned.
PricingServiceCalled ==
    /\ pi_result # None
    /\ "error" \notin DOMAIN pi_call.inventory
    /\ "raised" \notin DOMAIN pb_result

\* The service call failed: unreachable, timed out, non-success status, or
\* a malformed body.
PricingServiceFailed ==
    PricingServiceCalled /\ pi_call.response.outcome \in FailureOutcomes

\* The expiry-tiered decision <<needs_discount, urgency, discount>>.
ExpiryTier(days_until_expiry) ==
    IF days_until_expiry <= 2 THEN <<TRUE, "high", 30>>
    ELSE IF days_until_expiry <= 4 THEN <<TRUE, "medium", 20>>
    ELSE <<FALSE, "none", 0>>

\* C11: whenever the reasoning service is unreachable, times out, answers
\* with a non-success status or with a malformed body, analyze returns the
\* expiry-tiered decision: <= 2 days (true, high, 30), <= 4 days (true,
\* medium, 20), otherwise (false, none, 0), whatever the quantity on hand
\* and the waste rate.
C11_FallbackOnServiceFailure ==
    PricingServiceFailed =>
        /\ PricingReturned
        /\ <<pi_result.needs_discount, pi_result.urgency,
              pi_result.recommended_discount_pct>>
             = ExpiryTier(pi_call.inventory.days_until_nearest_expiry)

\* The text of the answer parsed, but not to an object with the four
\* required fields.
PricingSchemaViolated ==
    /\ PricingServiceCalled
    /\ pi_call.response.outcome = "json_text"
    /\ \/ pi_call.response.text.kind # "object"
       \/ ~({"needs_discount", "urgency", "recommended_discount_pct", "reasoning"}
                \subseteq DOMAIN pi_call.response.text.value)

\* forecast_and_order reached its call of the reasoning service.
SupplierServiceCalled ==
    /\ sf_result # None
    /\ "error" \notin DOMAIN sf_call.forecast
    /\ "raised" \notin DOMAIN sf_call.forecast

SupplierReturned ==
    sf_result # None /\ "recommended_order_quantity" \in DOMAIN sf_result

\* C12: for every outcome of the reasoning-service call (success, transport
\* error, unparsable body, a parsable body that violates the schema) analyze
\* and forecast_and_order return a complete recommendation and do not raise;
\* a schema-violating answer leads to the deterministic fallback.
C12_EveryOutcomeReturns ==
    /\ PricingServiceCalled => PricingReturned
    /\ PricingSchemaViolated =>
          /\ PricingReturned
          /\ <<pi_result.needs_discount, pi_result.urgency,
                pi_result.recommended_discount_pct>>
               = ExpiryTier(pi_call.inventory.days_until_nearest_expiry)
    /\ SupplierServiceCalled => SupplierReturned

\* analyze substituted the rule-based decision for the service's answer.
PricingFallbackUsed ==
    /\ PricingServiceCalled /\ PricingReturned
    /\ generate(pi_call.response).kind = "object"
    /\ "error" \in DOMAIN generate(pi_call.response).value

\* forecast_and_order substituted the rule-based order for the service's
\* answer.
SupplierFallbackUsed ==
    /\ SupplierServiceCalled /\ SupplierReturned
    /\ generate(sf_call.response).kind = "object"
    /\ "error" \in DOMAIN generate(sf_call.response).value

\* C13: a result built from the fallback can be told from a result the
\* service produced: no answer of the service to the same request leads to
\* the result a fallback led to.
C13_FallbackDistinguishable ==
    /\ PricingFallbackUsed =>
          \A answer \in PricingAnswers :
              PricingInventoryAgent_analyze(
                  pi_call.product, pi_call.inventory, pb_result,
                  [outcome |-> "json_text", text |-> answer]) # pi_result
    /\ SupplierFallbackUsed =>
          \A answer \in OrderAnswers :
              forecast_and_order(
                  sales_df, sf_call.product, sf_call.days_ahead, sf_call.env,
                  [outcome |-> "json_text", text |-> answer]) # sf_result

\* ------------------------------------------------------------------------
\* Properties of the Database methods
\* ------------------------------------------------------------------------

\* A direct call of the named method has returned or raised.
Called(op) == db_result # None /\ db_call.op = op

\* get_prophet_prediction returned a forecast.
ForecastReturned ==
    Called("get_prophet_prediction") /\ "predictions" \in DOMAIN db_result

\* C14: when the live weather provider fails, the forecast is built from
\* the fixed mock sequence (day i uses scenario i mod 7) and weather_source
\* marks it as mock; weather_source says 'OpenWeather API' only when the
\* weather values came from the live provider.
C14_WeatherProvenance ==
    ForecastReturned =>
        /\ ~db_call.env.weather.live =>
              /\ db_result.weather_source = "Mock Data (API unavailable)"
              /\ \A i \in 1..Len(db_result.predictions) :
                    db_result.predictions[i].temperature
                        = weather_scenarios[((i - 1) % 7) + 1]
        /\ db_result.weather_source = "OpenWeather API" => db_call.env.weather.live

\* C15: in get_sales_trend and get_discount_recommendation the reported
\* waste_rate_pct is 0 when total_sold + total_wasted = 0 over the window
\* (no error, no NaN), and total_wasted / (total_sold + total_wasted) * 100
\* otherwise.
C15_WasteRateDefined ==
    /\ Called("get_sales_trend") =>
          LET st == db_result.statistics
              total == st.total_sold + st.total_wasted
          IN  /\ "raised" \notin DOMAIN db_result
              /\ ~st.waste_rate_pct.nan
              /\ st.waste_rate_pct.tenths =
                    (IF total = 0 THEN 0 ELSE PyRound1(<<st.total_wasted * 100, total>>))
    /\ PolicyBReturned =>
          LET sold == WindowTotal("items_sold")
              wasted == WindowTotal("items_wasted")
          IN  pb_result.waste_rate_pct =
                (IF sold + wasted = 0 THEN 0
                 ELSE PyRound1(<<wasted * 100, sold + wasted>>))

\* The dataset has no row of the product.
NoRecords(product) == \A i \in 1..Len(sales_df) : sales_df[i].product # product

\* C16: for a product without sales records get_sales_trend,
\* get_discount_recommendation and get_current_status return an explicit
\* not-found error value, never a statistics payload.
C16_NotFound ==
    /\ (Called("get_sales_trend") /\ NoRecords(db_call.product)) =>
          ("error" \in DOMAIN db_result /\ "statistics" \notin DOMAIN db_result)
    /\ (Called("get_current_status") /\ NoRecords(db_call.product)) =>
          ("error" \in DOMAIN db_result /\ "items_sold" \notin DOMAIN db_result)
    /\ (pb_result # None /\ NoRecords(pb_call.product)) =>
          ("error" \in DOMAIN pb_result /\ "waste_rate_pct" \notin DOMAIN pb_result)

\* ------------------------------------------------------------------------
\* Properties of the inventory summary
\* ------------------------------------------------------------------------

\* The quantity of the batches of product p whose expiration date is
\* between lo and hi calendar days after the current date.
BucketQty(p, lo, hi) ==
    LET S == {i \in 1..Len(inventory_data) :
                /\ inventory_data[i].product = p
                /\ inventory_data[i].expiration_date - current_date.day >= lo
                /\ inventory_data[i].expiration_date - current_date.day <= hi}
        RECURSIVE Sum(_)
        Sum(T) == IF T = {} THEN 0
                  ELSE LET i == CHOOSE j \in T : TRUE
                       IN  inventory_data[i].quantity + Sum(T \ {i})
    IN  Sum(S)

\* The batches of p that expired before the current date, and those that
\* expire 15 days or more after it (no date of the model is 1000 days away).
ExpiredQty(p) == BucketQty(p, -1000, -1)

GoodQty(p) == BucketQty(p, 15, 1000)

\* C17: get_inventory_summary adds each batch to total_quantity and to the
\* one bucket of d, the whole calendar days from the current date to the
\* expiration date: expired iff d < 0, expiring_soon iff 0 <= d <= 5,
\* expiring_warning iff 6 <= d <= 14, expiring_good iff d >= 15; a batch
\* expiring today is expiring_soon at whatever time of day.
C17_SummaryBuckets ==
    phase = "summarised" =>
        \A p \in DOMAIN inventory_summary :
            LET sum == inventory_summary[p]
            IN  /\ sum.expired = ExpiredQty(p)
                /\ sum.expiring_soon = BucketQty(p, 0, 5)
                /\ sum.expiring_warning = BucketQty(p, 6, 14)
                /\ sum.expiring_good = GoodQty(p)
                /\ sum.total_quantity = sum.expired + sum.expiring_soon
                                          + sum.expiring_warning + sum.expiring_good

\* C18: get_inventory_summary, calculate_optimal_order_quantity and
\* PricingAgent.analyze are functions of their declared inputs: the same
\* batches, demand and days_ahead (the same sales and expiry data) give the
\* same result at whatever wall-clock time the predictor was created.
C18_Deterministic ==
    /\ phase = "summarised" =>
          \A now \in Nows :
              get_inventory_summary(inventory_data, now) = inventory_summary
    /\ phase = "returned" =>
          \A now \in Nows :
              calculate_optimal_order_quantity(
                  inventory_data, now, order_call.product,
                  order_call.predicted_demand, order_call.days_ahead) = order_rec
    /\ pa_result # None =>
          PricingAgent_analyze(pa_call.product, pa_call.actual_sales,
                               pa_call.predicted_sales, pa_call.hours_to_expiry)
              = pa_result

\* ------------------------------------------------------------------------
\* Properties of the forecast's error handling
\* ------------------------------------------------------------------------

\* In the environment env, a get_prophet_prediction call for days days finds
\* no model for the product, or reaches model.predict (the product has rows,
\* the weather has one item per day) and model.predict raises.
ModelMissing(env) == ~env.has_model

PredictRaised(product, env, days) ==
    /\ env.has_model
    /\ ~NoRecords(product)
    /\ Len(env.weather.data) = days
    /\ env.predict.raises

\* An error value: a dictionary with "error" and no forecast.
ErrorValue(result) ==
    /\ "error" \in DOMAIN result
    /\ "raised" \notin DOMAIN result
    /\ "predictions" \notin DOMAIN result
    /\ "total_predicted" \notin DOMAIN result

\* C19: get_prophet_prediction returns an error value and does not raise
\* when the product has no trained model and when model.predict raises; no
\* partial forecast is returned, and get_discount_recommendation and
\* forecast_and_order continue without failing.
C19_PredictionErrors ==
    /\ (/\ Called("get_prophet_prediction")
        /\ \/ ModelMissing(db_call.env)
           \/ PredictRaised(db_call.product, db_call.env, db_call.days_ahead))
          => ErrorValue(db_result)
    /\ (/\ pb_result # None
        /\ ~NoRecords(pb_call.product)
        /\ \/ ModelMissing(pb_call.env)
           \/ PredictRaised(pb_call.product, pb_call.env, 1))
          => (PolicyBReturned /\ pb_result.performance_vs_prediction_pct = 1000)
    /\ (/\ sf_result # None
        /\ \/ ModelMissing(sf_call.env)
           \/ PredictRaised(sf_call.product, sf_call.env, sf_call.days_ahead))
          => ErrorValue(sf_result)

\* model.predict raised during a direct call and the call returned
\* "Prophet prediction failed".
C19_Witness ==
    /\ Called("get_prophet_prediction")
    /\ db_call.days_ahead = 2
    /\ PredictRaised(db_call.product, db_call.env, 2)
    /\ db_result = [error |-> "Prophet prediction failed"]

\* C20: invalid input is answered with an error value and never raises:
\* get_prophet_prediction with days_ahead <= 0 or with a weather sequence
\* whose length differs from days_ahead, calculate_optimal_order_quantity
\* with days_ahead <= 0.
C20_InvalidInputRejected ==
    /\ (/\ Called("get_prophet_prediction")
        /\ \/ db_call.days_ahead <= 0
           \/ Len(db_call.env.weather.data) # db_call.days_ahead)
          => ErrorValue(db_result)
    /\ (phase = "returned" /\ order_call.days_ahead <= 0)
          => ("error" \in DOMAIN order_rec /\ "raised" \notin DOMAIN order_rec)

\* The finished call had only non-negative batch quantities and predicted
\* demand values.
NonNegativeInputs ==
    /\ \A i \in 1..Len(inventory_data) : inventory_data[i].quantity >= 0
    /\ \A i \in 1..Len(order_call.predicted_demand) : order_call.predicted_demand[i] >= 0

TierReasons ==
    {"Critical stock level - immediate order needed",
     "Low stock level - order recommended",
     "High waste risk - order only if needed",
     "Overstocked - no order needed",
     "Normal stock level - standard order"}

\* The 0.7 factor was applied to the returned recommendation.
WasReduced ==
    order_rec.reason \in {r \o " (reduced due to waste risk)" : r \in TierReasons}

InHighWasteTier ==
    order_rec.reason \in
        {"High waste risk - order only if needed",
         "High waste risk - order only if needed (reduced due to waste risk)"}

\* The order the tier rule selected for the finished call, before the 0.7
\* factor and the rounding.
TierOrderOfCall ==
    LET td == total_demand(order_call.predicted_demand, order_call.days_ahead)
        avg == avg_daily_demand(order_call.predicted_demand, order_call.days_ahead)
        cur == get_inventory_summary(inventory_data, current_date)[order_call.product]
    IN  Tier(<<td, 10>>, cur.total_quantity, avg,
             days_of_inventory(cur.total_quantity, avg),
             waste_risk(cur.expiring_soon, avg)).order

\* C27: with days_ahead <= 7 and non-negative quantities and demand, a
\* recommendation to which the 0.7 waste-risk factor was applied had tier
\* order 0 (the factor changed nothing), and every recommendation of the
\* high-waste-risk tier has order 0.
C27_ReductionNeverChangesOrder ==
    (/\ OrderReturned /\ ProductPresent
     /\ order_call.days_ahead <= 7
     /\ NonNegativeInputs)
        => /\ WasReduced => (~RGt(TierOrderOfCall, RInt(0)) /\ order_rec.recommended_order = 0)
           /\ InHighWasteTier => order_rec.recommended_order = 0

\* The finished call used the default horizon on non-negative inputs.
DefaultHorizonCall ==
    /\ OrderReturned /\ ProductPresent
    /\ order_call.days_ahead = 7
    /\ NonNegativeInputs

InOverstockedTier == order_rec.reason = "Overstocked - no order needed"

\* waste_risk > 10 in the finished call (on the unrounded value).
WasteRiskAboveTen ==
    WasteRiskScaled(order_rec.expiring_soon, CallTotal, order_call.days_ahead)
        > 100 * order_call.days_ahead

\* C28 as stated: with days_ahead = 7 and non-negative quantities and
\* demand, a recommendation with recommended_order > 0 never has priority LOW,
\* and a recommendation of the overstocked tier never has priority HIGH or
\* URGENT.
C28_PriorityMatchesOrder ==
    DefaultHorizonCall =>
        /\ order_rec.recommended_order > 0 => order_rec.order_priority # "LOW"
        /\ InOverstockedTier => order_rec.order_priority \notin {"HIGH", "URGENT"}

\* C28 amended: with days_ahead = 7 and non-negative quantities and demand,
\* a recommendation with recommended_order > 0 never has priority LOW; a
\* recommendation of the overstocked tier has order 0 and priority HIGH
\* when waste_risk > 10 and LOW otherwise, never URGENT or MEDIUM.
C28_PriorityOfOverstocked ==
    DefaultHorizonCall =>
        /\ order_rec.recommended_order > 0 => order_rec.order_priority # "LOW"
        /\ InOverstockedTier =>
             /\ order_rec.recommended_order = 0
             /\ order_rec.order_priority = (IF WasteRiskAboveTen THEN "HIGH" ELSE "LOW")

\* 280 units on hand, 80 of them expiring soon, against a demand of 95 over
\* 7 days: overstocked (20.6 days of inventory), waste risk 12.1, priority HIGH.
C28_Witness ==
    /\ DefaultHorizonCall
    /\ inventory_data = LargeStock
    /\ order_call.predicted_demand = LargeDemand
    /\ InOverstockedTier
    /\ order_rec.recommended_order = 0
    /\ order_rec.waste_risk = 121
    /\ order_rec.order_priority = "HIGH"

\* What analyze recommends for other readings of the database, the product
\* being the one of the finished call.
DiscountFor(actual_sales, predicted_sales, hours_to_expiry) ==
    PricingAgent_analyze(pa_call.product, actual_sales, predicted_sales,
                         hours_to_expiry).recommended_discount

CallPerformance == performance(pa_call.actual_sales, pa_call.predicted_sales)

\* C29: when analyze recommends 'discount' the recommended discount is in
\* [20, 50], for every other recommendation it is 0; at the same
\* hours_to_expiry a higher performance never gets a higher discount, and
\* at the same performance a later expiry never gets a higher discount.
C29_DiscountShape ==
    PolicyAReturned =>
        /\ IF pa_result.recommendation = "discount"
           THEN pa_result.recommended_discount >= 20 /\ pa_result.recommended_discount <= 50
           ELSE pa_result.recommended_discount = 0
        /\ \A a \in ActualSalesVals, b \in PredictedSalesVals :
             RGt(performance(a, b), CallPerformance)
                => DiscountFor(a, b, pa_call.hours_to_expiry) <= pa_result.recommended_discount
        /\ \A h \in HoursVals :
             h > pa_call.hours_to_expiry
                => DiscountFor(pa_call.actual_sales, pa_call.predicted_sales, h)
                     <= pa_result.recommended_discount

\* Performance 0.5 with 24 h left gives 35; the lower performance 0.3 gives
\* 45, the later expiry 47 h gives 25.
C29_Witness ==
    /\ PolicyAReturned
    /\ pa_call.actual_sales = 5 /\ pa_call.predicted_sales = 10
    /\ pa_call.hours_to_expiry = 24
    /\ pa_result.recommendation = "discount"
    /\ pa_result.recommended_discount = 35
    /\ DiscountFor(3, 10, 24) = 45
    /\ DiscountFor(5, 10, 47) = 25
    /\ DiscountFor(6, 10, 24) = 0

\* ------------------------------------------------------------------------
\* Properties of the supplier order
\* ------------------------------------------------------------------------

OrderQuantityNonNegative == ~RLt(sf_result.recommended_order_quantity, RInt(0))

\* C26: forecast_and_order returns recommended_order_quantity >= 0, both
\* when the quantity is the service's and when it is the fallback
\* 1.1 * total_predicted, for every forecast the model can produce, and
\* change_percentage is 0 when the historical weekly average is not positive.
C26_OrderQuantityNonNegative ==
    SupplierReturned =>
        /\ OrderQuantityNonNegative
        /\ SupplierFallbackUsed =>
             sf_result.recommended_order_quantity
                 = <<sf_result.total_predicted_demand * 11, 100>>
        /\ (sf_result.historical_weekly_avg.nan \/ sf_result.historical_weekly_avg.tenths <= 0)
             => sf_result.change_percentage = RInt(0)

\* ------------------------------------------------------------------------
\* Properties of the trailing window
\* ------------------------------------------------------------------------

Smaller(a, b) == IF a < b THEN a ELSE b

\* window holds the n latest records by date of rows: it has n records (all
\* of rows when there are fewer) and, from every date on, as many records as
\* rows has, up to n.
LatestByDate(window, rows, n) ==
    /\ Len(window) = Smaller(n, Len(rows))
    /\ \A k \in 1..Len(rows) :
         Cardinality({i \in 1..Len(window) : window[i].date >= rows[k].date})
           = Smaller(Len(window),
                     Cardinality({j \in 1..Len(rows) : rows[j].date >= rows[k].date}))

\* The records of the product with the latest date.
LatestRecords(product) ==
    LET rows == ProductRows(sales_df, product)
    IN  {rows[i] : i \in {k \in 1..Len(rows) : \A j \in 1..Len(rows) : rows[j].date <= rows[k].date}}

\* get_discount_recommendation compared an actual with a positive forecast.
PerformanceComputed ==
    /\ PolicyBReturned
    /\ pb_call.env.has_model /\ ~pb_call.env.predict.raises
    /\ PyRound(<<pb_call.env.predict.yhat[1], 10>>) > 0

\* performance_pct computed from the record r as today's actual.
PerformanceFrom(r) ==
    PyRound1(Rat(r.items_sold * 1000, PyRound(<<pb_call.env.predict.yhat[1], 10>>)))

\* C24: whatever the row order of the dataset, the window of
\* get_sales_trend(product, days) is the days latest records by date, and
\* the 'today' actual of get_discount_recommendation's performance_pct is a
\* record with the latest date.
C24_WindowByDate ==
    /\ Called("get_sales_trend") =>
         LatestByDate(db_result.trend_data, ProductRows(sales_df, db_call.product),
                      db_call.days)
    /\ PerformanceComputed =>
         \E r \in LatestRecords(pb_call.product) :
            pb_result.performance_vs_prediction_pct = PerformanceFrom(r)

\* ------------------------------------------------------------------------
\* Properties of the HTTP entry points
\* ------------------------------------------------------------------------

\* A forecast entry point answered the request.
ForecastAnswered ==
    /\ api_result # None
    /\ api_call.endpoint \in {"/api/forecast", "/api/forecast/enhanced"}

\* The models the entry point of the request can use for a product.
UsableModels ==
    IF api_call.endpoint = "/api/forecast" THEN api_call.env.models.basic
    ELSE api_call.env.models.enhanced \cup api_call.env.models.basic

\* The outcome the error surface assigns to the answered forecast request.
ClaimedForecastStatus ==
    IF ~api_call.body.is_object \/ api_call.body.product = "" THEN 400
    ELSE IF api_call.body.product \notin UsableModels THEN 404
    ELSE IF api_call.env.predict.raises THEN 500
    ELSE 200

\* C21: a forecast or chat request with a missing required field or a body
\* that is not a JSON object is answered 400 with an error payload, a
\* product without model 404, a failure during the computation 500, and
\* every other request 200 with the structured payload.
C21_HttpOutcomes ==
    /\ ForecastAnswered =>
         /\ api_result.status = ClaimedForecastStatus
         /\ IF api_result.status = 200
            THEN "predictions" \in DOMAIN api_result.payload
            ELSE "error" \in DOMAIN api_result.payload
    /\ \A r \in ChatRequests :
         chat_req[r].pc = "done" =>
            IF ~chat_req[r].body.is_object \/ ~chat_req[r].body.has_message
            THEN chat_req[r].status = 400
            ELSE chat_req[r].status \in {200, 500}

RangeOf(seq) == {seq[i] : i \in 1..Len(seq)}

\* The forecast points of the answered call: those of a returned
\* get_prophet_prediction, those of the enhanced-ensemble branch of an
\* answered /api/forecast/enhanced request.
ForecastPoints ==
    (IF ForecastReturned THEN RangeOf(db_result.predictions) ELSE {})
        \cup (IF /\ api_result # None
                 /\ api_call.endpoint = "/api/forecast/enhanced"
                 /\ api_result.status = 200
                 /\ api_result.payload.model_type = "enhanced_ensemble"
              THEN RangeOf(api_result.payload.predictions)
              ELSE {})

\* C22: every forecast point of get_prophet_prediction and of the
\* enhanced-ensemble branch has predicted_demand >= 0 and
\* lower_bound <= predicted_demand <= upper_bound, negative model
\* predictions included.
C22_ForecastPointBounds ==
    \A pt \in ForecastPoints :
        /\ pt.predicted_demand >= 0
        /\ pt.lower_bound <= pt.predicted_demand
        /\ pt.predicted_demand <= pt.upper_bound

\* The analytics entry point answered a request whose body is an object.
AnalyticsAnswered ==
    /\ api_result # None
    /\ api_call.endpoint = "/api/analytics/insights"
    /\ api_call.body.is_object

\* Forecast generation for product p succeeds in the request's environment:
\* p has a model and the computation does not raise.
ForecastSucceedsFor(p) ==
    /\ p \in api_call.env.models.enhanced \cup api_call.env.models.basic
    /\ ~api_call.env.predict.raises

\* C25: for every product of the requested list whose forecast generation
\* succeeds, POST /api/analytics/insights answers with success and its
\* 'products' map holds that product with the forecast of that product; a
\* successful forecast never makes the request a 500.
C25_InsightsHoldForecasts ==
    AnalyticsAnswered =>
        \A p \in RangeOf(api_call.body.products) :
            ForecastSucceedsFor(p) =>
                /\ api_result.status = 200
                /\ p \in DOMAIN api_result.payload.products
                /\ api_result.payload.products[p].forecast.product = p

\* ------------------------------------------------------------------------
\* Properties of the chat sessions
\* ------------------------------------------------------------------------

SessionExists(s) == sessions[s] # 0

\* sessions[s]["history"]
History(s) == IF SessionExists(s) THEN session_dicts[sessions[s]] ELSE <<>>

\* The requests that were received for session s, and those of them that
\* were answered 200.
RequestsFor(s) ==
    {r \in ChatRequests : chat_req[r].pc # "idle" /\ chat_req[r].session_id = s}

Succeeded(s) ==
    {r \in RequestsFor(s) : chat_req[r].pc = "done" /\ chat_req[r].status = 200}

\* C23: whatever the interleaving of the requests, once the requests for a
\* session_id have completed, the stored history of that session holds
\* exactly one entry per successful request, none lost or overwritten, also
\* when the session was not in the sessions map before them.
C23_NoLostEntry ==
    \A s \in SessionKeys :
        (\A r \in RequestsFor(s) : chat_req[r].pc = "done") =>
            /\ Len(History(s)) = Cardinality(Succeeded(s))
            /\ \A r \in Succeeded(s) : Entry(r) \in RangeOf(History(s))

\* What a client of the sessions map can see: the keys and their histories.
Visible == [s \in SessionKeys |-> [exists |-> SessionExists(s), history |-> History(s)]]

\* Entry(r) is in no stored history.
NoEntryOf(r) == \A s \in SessionKeys : Entry(r) \notin RangeOf(History(s))

\* The effect of one step of request r on the sessions map: the step that
\* publishes the entry of a request appends Entry(r) to the history of r's
\* own session (creating the session when it is new) and changes nothing
\* else; every other step - in particular every step of a request that is
\* rejected or fails - changes nothing.
StepFrame(r) ==
    LET sid == chat_req[r].session_id
    IN  \/ /\ Visible' = Visible
           /\ (chat_req'[r].pc = "done" /\ chat_req'[r].status # 200) => NoEntryOf(r)'
        \/ /\ chat_req[r].pc \in {"append", "store"}
           /\ NoEntryOf(r)
           /\ Visible' = [Visible EXCEPT ![sid] =
                            [exists |-> TRUE,
                             history |-> Append(Visible[sid].history, Entry(r))]]

\* C30: in a sequence of chat requests served one after the other, a
\* successful request appends exactly one entry to the history of its own
\* session and leaves the earlier entries and every other session
\* unchanged; a rejected or failed request leaves the sessions map
\* unchanged and creates no session.
C30_ChatFrame ==
    [][\A r \in ChatRequests :
          (chat_req'[r] # chat_req[r]) =>
             /\ StepFrame(r)
             /\ (chat_req'[r].pc = "done" /\ chat_req'[r].status = 200) =>
                  Cardinality({i \in 1..Len(History(chat_req[r].session_id)') :
                                 History(chat_req[r].session_id)'[i] = Entry(r)}) = 1]_vars

\* Two requests for the same session answered 200 one after the other, the
\* history holding both entries in order of service.
C30_Witness ==
    /\ chat_req[1].pc = "done" /\ chat_req[1].status = 200
    /\ chat_req[2].pc = "done" /\ chat_req[2].status = 200
    /\ chat_req[1].session_id = <<"client", 1>>
    /\ chat_req[2].session_id = <<"client", 1>>
    /\ History(<<"client", 1>>) = <<Entry(1), Entry(2)>>
    /\ ~SessionExists(<<"client", 2>>)

====
